---- MODULE Spec2Model ----
(***************************************************************************)
(* Model of the nodo dataflow runtime: the lifecycle state machine, the    *)
(* staged queue under every channel endpoint, the schedule executor and    *)
(* the worker thread that drives it.                                       *)
(***************************************************************************)
EXTENDS Integers, Sequences, FiniteSets, TLC

(* ---------------------------------------------------------------------- *)
(* Bounds                                                                  *)
(* ---------------------------------------------------------------------- *)
MaxCap == 2          \* largest Reject/Forget capacity explored
MaxPush == 5         \* number of push attempts on the staged queue
MaxStepCap == 3      \* largest max_step_count explored
MaxSteps == 3        \* steps explored for a schedule without max_step_count
MaxMessages == 10    \* largest NUM_MESSAGES explored for Alice and Bob
MaxRequests == 1     \* stop requests the executor sends to a worker
MaxReports == 2      \* calls of Executor::report
MaxWorkers == 3      \* schedules pushed to an executor
MaxMembers == 2      \* instances in a sequence of a pushed schedule
MaxTime == 4         \* largest timestamp of a time series
NumTx == 2           \* producers that consumers are connected to
NumRx == 2           \* consumers constructed and connected
MaxChanCap == 1      \* largest Reject/Forget capacity of a consumer endpoint
MaxOutbox == 2       \* capacity of a fixed-capacity producer's outbox
MaxSend == 3         \* values pushed into a producer's outbox
ExtraBobs == 2       \* consumers beyond the connection limit of one producer
MaxRace == 2         \* values pushed by a producer on a thread of its own

\* Runtime::new: std::sync::mpsc::sync_channel(16), the slots of the control
\* channel; a send into the full channel blocks until one is received
CONTROL_CAPACITY == 16

None == "None"
\* an absent number: Option::None of max_step_count, a failed push or pop
Absent == 0 - 1

Transitions == {"Start", "Step", "Stop", "Pause", "Resume"}
RtStates == {"Inactive", "Started", "Paused", "Error"}
ClStates == {"Inactive", "Started", "Paused"}
OutcomeKinds == {"Running", "Skipped"}
InnerOutcomes == OutcomeKinds \cup {"Err"}

VARIABLES
    rt,                 \* nodo_runtime StateMachine and the record of its last call
    cl,                 \* nodo::codelet StateMachine and the record of its last call
    back,               \* BackStage.items
    front,              \* FrontStage.items
    overflow_policy,    \* BackStage.overflow_policy
    retention_policy,   \* BackStage.retention_policy
    qlog,               \* record of the last queue operation
    capacity,           \* VecDeque::capacity() of BackStage.items and FrontStage.items
    sequences,          \* ScheduleBuilder.sequences: the instances of each sequence
    kinds,              \* the codelet type of each instance
    max_step_count,     \* ScheduleExecutor.max_step_count (Absent or a number)
    sm_state,           \* ScheduleExecutor.sm.state
    next_transition,    \* ScheduleExecutor.next_transition
    num_steps,          \* ScheduleExecutor.num_steps
    mem,                \* state of each instance's StateMachine<DynamicVise>
    chan,               \* the Alice -> Bob channel and the codelets' counters
    pc,                 \* position of the worker thread
    rx_request,         \* WorkerState.rx_request: requests not yet received
    rx_reply,           \* Worker.rx_reply: replies not yet received
    rx_control,         \* Runtime.rx_control: control messages not yet received
    main,               \* position of the thread that owns the executor
    statistics,         \* Vise.statistics.transitions of the observed instances
    executor,           \* Executor.next_worker_id and the instance ids of its workers
    series,             \* a time series and the last search made in it
    hist,               \* record of hook invocations and of the last spin
    txs,                \* the DoubleBufferTx endpoints
    rxs,                \* the DoubleBufferRx endpoints
    clog,               \* record of the last endpoint operation
    locks               \* the back-stage write locks held, and by which thread

smVars == <<rt, cl>>
qVars == <<back, front, overflow_policy, retention_policy, qlog, capacity>>
schedVars == <<sequences, kinds, max_step_count, sm_state, next_transition,
               num_steps, mem, chan, pc, rx_request, rx_reply, rx_control, main,
               statistics, executor, series, hist>>
chVars == <<txs, rxs, clog, locks>>
vars == <<smVars, qVars, schedVars, chVars>>

(* ---------------------------------------------------------------------- *)
(* Lifecycle state machine (nodo_runtime)                                  *)
(* ---------------------------------------------------------------------- *)

StateTransition_MutErrorStop(self, request) ==
    CASE request = "Stop" /\ self \in {"Started", "Paused", "Error"} -> "Inactive"
      [] self = "Inactive" /\ request = "Start" -> "Started"
      [] self = "Started" /\ request = "Step" -> "Started"
      [] self = "Paused" /\ request = "Resume" -> "Started"
      [] self = "Started" /\ request = "Pause" -> "Paused"
      [] OTHER -> None

\* State::transition: the next state after a successful transition, or None
StateTransition(self, request) ==
    CASE request = "Stop" /\ self \in {"Started", "Paused"} -> "Inactive"
      [] self = "Inactive" /\ request = "Start" -> "Started"
      [] self = "Started" /\ request = "Step" -> "Started"
      [] self = "Paused" /\ request = "Resume" -> "Started"
      [] self = "Started" /\ request = "Pause" -> "Paused"
      [] OTHER -> None

\* StateMachine::is_valid_request
IsValidRequest(state, request) == StateTransition(state, request) # None

\* StateMachine::new
RtNew == [state |-> "Inactive", prev |-> "Inactive", req |-> None,
          result |-> None, innerCalled |-> FALSE, inner |-> None]

\* StateMachine::transition: the state afterwards, the result, and whether
\* the inner cycle was invoked; inner is the outcome the inner cycle returns
\* when it is invoked
SmTransition(state, transition, inner) ==
    LET next_state == StateTransition(state, transition) IN
    IF next_state # None
    THEN IF inner \in OutcomeKinds
         THEN [state |-> next_state, result |-> inner, called |-> TRUE]
         ELSE [state |-> "Error", result |-> "ExecutionFailure", called |-> TRUE]
    ELSE [state |-> state, result |-> "InvalidTransition", called |-> FALSE]

\* a call of StateMachine::transition on the state machine rt
RtTransition(transition, inner) ==
    LET r == SmTransition(rt.state, transition, inner) IN
    rt' = [state |-> r.state, prev |-> rt.state, req |-> transition,
           result |-> r.result, innerCalled |-> r.called, inner |-> inner]

(* ---------------------------------------------------------------------- *)
(* Lifecycle state machine (nodo::codelet)                                 *)
(* ---------------------------------------------------------------------- *)

\* State::transition of nodo::codelet (three states, no Error)
ClStateTransition(self, request) ==
    CASE request = "Stop" /\ self \in {"Started", "Paused"} -> "Inactive"
      [] self = "Inactive" /\ request = "Start" -> "Started"
      [] self = "Started" /\ request = "Step" -> "Started"
      [] self = "Paused" /\ request = "Resume" -> "Started"
      [] self = "Started" /\ request = "Pause" -> "Paused"
      [] OTHER -> None

\* StateMachine::new of nodo::codelet
ClNew == [state |-> "Inactive", has_error |-> FALSE, prev |-> "Inactive",
          req |-> None, result |-> None, innerCalled |-> FALSE, inner |-> None]

\* StateMachine::transition of nodo::codelet
ClTransition(transition, inner) ==
    LET next_state == ClStateTransition(cl.state, transition) IN
    cl' = IF next_state # None
          THEN IF inner \in OutcomeKinds
               THEN [cl EXCEPT !.state = next_state, !.prev = cl.state,
                               !.req = transition, !.result = inner,
                               !.innerCalled = TRUE, !.inner = inner]
               ELSE [cl EXCEPT !.has_error = TRUE, !.prev = cl.state,
                               !.req = transition, !.result = "ExecutionFailure",
                               !.innerCalled = TRUE, !.inner = inner]
          ELSE [cl EXCEPT !.prev = cl.state, !.req = transition,
                          !.result = "InvalidTransition",
                          !.innerCalled = FALSE, !.inner = inner]

(* ---------------------------------------------------------------------- *)
(* Staged queue                                                            *)
(* ---------------------------------------------------------------------- *)

\* StrictlyIncreasingLinear::from_factor(2), from_addend(1) and new(1, 2)
Sils == {[addend |-> 0, factor |-> 2], [addend |-> 1, factor |-> 1],
         [addend |-> 1, factor |-> 2]}

OverflowPolicies ==
    [kind : {"Reject", "Forget"}, n : 0..MaxCap]
        \cup {[kind |-> "Resize", n |-> 0, sil |-> sil] : sil \in Sils}
RetentionPolicies == {"Keep", "Drop", "EnforceEmpty"}

PopFront_MutKeepsHead(items) == items

\* VecDeque::pop_front, dropping the popped value
PopFront(items) == IF items = <<>> THEN <<>> ELSE Tail(items)

\* VecDeque::drain(0..delta)
DrainFront(items, delta) == SubSeq(items, delta + 1, Len(items))

Min(a, b) == IF a < b THEN a ELSE b
Max(a, b) == IF a > b THEN a ELSE b

BackStageNewOk_MutAcceptsAll(op, rp) == rp # "Keep" \/ op.kind # "Reject" \/ op.n >= 0

\* BackStage::new: the constructor assertion
BackStageNewOk(op, rp) == rp # "Keep" \/ op.kind # "Reject"

\* BackStage::new: the capacity of the items the constructor allocates
BackStageNewCapacity(op) == IF op.kind = "Resize" THEN 0 ELSE op.n

\* StrictlyIncreasingLinear::eval
StrictlyIncreasingLinearEval(sil, current) ==
    IF current = 0 /\ sil.addend = 0
    THEN 1
    ELSE current * sil.factor + sil.addend

\* the capacity after VecDeque grows to hold `required` items (push_back on
\* a full deque, append beyond the capacity): amortized doubling, at least 4
GrowAmortized(cap, required) ==
    IF required <= cap THEN cap ELSE Max(4, Max(2 * cap, required))

\* BackStage::push, the capacity of the items afterwards: under Resize a full
\* back reserves room for sil.eval(capacity) further items before push_back
BackStagePushCapacity(op, len, cap) ==
    CASE op.kind = "Reject" ->
            IF len = op.n THEN cap ELSE GrowAmortized(cap, len + 1)
      [] op.kind = "Forget" ->
            IF len = op.n /\ len > 0
            THEN cap
            ELSE GrowAmortized(cap, len + 1)
      [] OTHER ->
            IF len = cap
            THEN len + StrictlyIncreasingLinearEval(op.sil, cap)
            ELSE cap

\* BackStage::sync, the capacities afterwards: append grows the receiving
\* deque when needed, swap exchanges the two allocations
BackStageSyncCapacity(op, rp, b, f, cap) ==
    CASE rp = "Keep" /\ op.kind = "Forget" ->
            IF Len(b) > op.n \/ Len(f) > op.n
            THEN cap
            ELSE [cap EXCEPT !.front = GrowAmortized(@, Min(op.n, Len(f) + Len(b)))]
      [] rp = "Keep" /\ op.kind = "Reject" -> cap
      [] rp = "Keep" /\ op.kind = "Resize" ->
            [cap EXCEPT !.back = GrowAmortized(@, Len(b) + Len(f))]
      [] rp = "Drop" -> [back |-> cap.front, front |-> cap.back]
      [] OTHER ->
            IF f # <<>> THEN cap ELSE [back |-> cap.front, front |-> cap.back]

\* SyncResult::ZERO
SyncResultZero ==
    [received |-> 0, forgotten |-> 0, dropped |-> 0,
     enforce_empty_violation |-> FALSE]

\* the SyncResult of a sync of back b into front f: the statistics of the
\* sync as the channel documentation describes them
SyncResultOf(op, rp, b, f) ==
    [received |-> Len(b),
     forgotten |-> IF rp = "Keep" /\ op.kind = "Forget"
                   THEN Max(0, Len(f) + Len(b) - op.n) ELSE 0,
     dropped |-> IF rp = "Keep" THEN 0 ELSE Len(f),
     enforce_empty_violation |-> rp = "EnforceEmpty" /\ f # <<>>]

BackStagePush_MutRejectOff(op, items, value) ==
    CASE op.kind = "Reject" ->
            IF Len(items) > op.n
            THEN [items |-> items, res |-> "Rejected"]
            ELSE [items |-> Append(items, value), res |-> "Ok"]
      [] op.kind = "Forget" ->
            [items |-> Append(IF Len(items) = op.n THEN PopFront(items) ELSE items,
                              value),
             res |-> "Ok"]
      [] OTHER -> [items |-> Append(items, value), res |-> "Ok"]

\* BackStage::push
BackStagePush(op, items, value) ==
    CASE op.kind = "Reject" ->
            IF Len(items) = op.n
            THEN [items |-> items, res |-> "Rejected"]
            ELSE [items |-> Append(items, value), res |-> "Ok"]
      [] op.kind = "Forget" ->
            [items |-> Append(IF Len(items) = op.n THEN PopFront(items) ELSE items,
                              value),
             res |-> "Ok"]
      [] OTHER -> [items |-> Append(items, value), res |-> "Ok"]

BackStageSync_MutKeepNewest(op, rp, b, f) ==
    CASE rp = "Keep" /\ op.kind = "Forget" ->
            IF Len(b) > op.n \/ Len(f) > op.n
            THEN [back |-> b, front |-> f, res |-> "Panic", forgotten |-> 0]
            ELSE LET available_count == op.n - Len(f)
                     delta == IF available_count < Len(b)
                              THEN Len(b) - available_count ELSE 0
                 IN [back |-> <<>>, front |-> SubSeq(f, 1, Len(f) - delta) \o b,
                     res |-> "Ok", forgotten |-> delta]
      [] rp = "Keep" /\ op.kind = "Reject" ->
            [back |-> b, front |-> f, res |-> "Panic", forgotten |-> 0]
      [] rp = "Keep" /\ op.kind = "Resize" ->
            [back |-> b \o f, front |-> <<>>, res |-> "Ok", forgotten |-> 0]
      [] rp = "Drop" ->
            [back |-> <<>>, front |-> b, res |-> "Ok", forgotten |-> 0]
      [] OTHER ->
            IF f # <<>>
            THEN [back |-> b, front |-> f, res |-> "NotEmpty", forgotten |-> 0]
            ELSE [back |-> f, front |-> b, res |-> "Ok", forgotten |-> 0]

BackStageSync_MutDropCopies(op, rp, b, f) ==
    CASE rp = "Keep" /\ op.kind = "Forget" ->
            IF Len(b) > op.n \/ Len(f) > op.n
            THEN [back |-> b, front |-> f, res |-> "Panic", forgotten |-> 0]
            ELSE LET available_count == op.n - Len(f)
                     delta == IF available_count < Len(b)
                              THEN Len(b) - available_count ELSE 0
                 IN [back |-> <<>>, front |-> DrainFront(f, delta) \o b,
                     res |-> "Ok", forgotten |-> delta]
      [] rp = "Keep" /\ op.kind = "Reject" ->
            [back |-> b, front |-> f, res |-> "Panic", forgotten |-> 0]
      [] rp = "Keep" /\ op.kind = "Resize" ->
            [back |-> b \o f, front |-> <<>>, res |-> "Ok", forgotten |-> 0]
      [] rp = "Drop" ->
            [back |-> b, front |-> b, res |-> "Ok", forgotten |-> 0]
      [] OTHER ->
            IF f # <<>>
            THEN [back |-> b, front |-> f, res |-> "NotEmpty", forgotten |-> 0]
            ELSE [back |-> f, front |-> b, res |-> "Ok", forgotten |-> 0]

BackStageSync_MutDropKeepsLeftover(op, rp, b, f) ==
    CASE rp = "Keep" /\ op.kind = "Forget" ->
            IF Len(b) > op.n \/ Len(f) > op.n
            THEN [back |-> b, front |-> f, res |-> "Panic", forgotten |-> 0]
            ELSE LET available_count == op.n - Len(f)
                     delta == IF available_count < Len(b)
                              THEN Len(b) - available_count ELSE 0
                 IN [back |-> <<>>, front |-> DrainFront(f, delta) \o b,
                     res |-> "Ok", forgotten |-> delta]
      [] rp = "Keep" /\ op.kind = "Reject" ->
            [back |-> b, front |-> f, res |-> "Panic", forgotten |-> 0]
      [] rp = "Keep" /\ op.kind = "Resize" ->
            [back |-> b \o f, front |-> <<>>, res |-> "Ok", forgotten |-> 0]
      [] rp = "Drop" ->
            [back |-> <<>>, front |-> f \o b, res |-> "Ok", forgotten |-> 0]
      [] OTHER ->
            IF f # <<>>
            THEN [back |-> b, front |-> f, res |-> "NotEmpty", forgotten |-> 0]
            ELSE [back |-> f, front |-> b, res |-> "Ok", forgotten |-> 0]

\* BackStage::sync(target): the stages afterwards, the result, and the number
\* of front items drained to make room
BackStageSync(op, rp, b, f) ==
    CASE rp = "Keep" /\ op.kind = "Forget" ->
            IF Len(b) > op.n \/ Len(f) > op.n
            THEN [back |-> b, front |-> f, res |-> "Panic", forgotten |-> 0]
            ELSE LET available_count == op.n - Len(f)
                     delta == IF available_count < Len(b)
                              THEN Len(b) - available_count ELSE 0
                 IN [back |-> <<>>, front |-> DrainFront(f, delta) \o b,
                     res |-> "Ok", forgotten |-> delta]
      [] rp = "Keep" /\ op.kind = "Reject" ->
            [back |-> b, front |-> f, res |-> "Panic", forgotten |-> 0]
      [] rp = "Keep" /\ op.kind = "Resize" ->
            [back |-> b \o f, front |-> <<>>, res |-> "Ok", forgotten |-> 0]
      [] rp = "Drop" ->
            [back |-> <<>>, front |-> b, res |-> "Ok", forgotten |-> 0]
      [] OTHER ->
            IF f # <<>>
            THEN [back |-> b, front |-> f, res |-> "NotEmpty", forgotten |-> 0]
            ELSE [back |-> f, front |-> b, res |-> "Ok", forgotten |-> 0]

\* log of the last queue operation: what was called, its result, the stages
\* before the call, and the values offered to push since the last sync
QLogInit == [op |-> None, res |-> None, preBack |-> <<>>, preFront |-> <<>>,
             offered |-> <<>>, preOffered |-> <<>>, forgotten |-> 0,
             popped |-> Absent, next |-> 1,
             preCapacity |-> Absent, report |-> SyncResultZero]

QLive == qlog.res # "Panic"

\* StageQueue::push -> BackStage::push of a fresh value
QPush ==
    /\ QLive
    /\ qlog.next <= MaxPush
    /\ LET r == BackStagePush(overflow_policy, back, qlog.next) IN
       /\ back' = r.items
       /\ qlog' = [qlog EXCEPT !.op = "push", !.res = r.res, !.preBack = back,
                               !.preFront = front,
                               !.offered = Append(qlog.offered, qlog.next),
                               !.next = qlog.next + 1,
                               !.preCapacity = capacity.back]
    /\ capacity' = [capacity EXCEPT
                        !.back = BackStagePushCapacity(overflow_policy, Len(back), @)]
    /\ UNCHANGED <<front, overflow_policy, retention_policy>>

\* StageQueue::sync -> BackStage::sync(front)
QSync ==
    /\ QLive
    /\ LET r == BackStageSync(overflow_policy, retention_policy, back, front) IN
       /\ back' = r.back
       /\ front' = r.front
       /\ qlog' = [qlog EXCEPT !.op = "sync", !.res = r.res, !.preBack = back,
                               !.preFront = front,
                               !.offered = IF r.res = "Ok" THEN <<>> ELSE qlog.offered,
                               !.preOffered = qlog.offered,
                               !.forgotten = r.forgotten,
                               !.preCapacity = capacity.back,
                               !.report = SyncResultOf(overflow_policy,
                                              retention_policy, back, front)]
    /\ capacity' = BackStageSyncCapacity(overflow_policy, retention_policy,
                                         back, front, capacity)
    /\ UNCHANGED <<overflow_policy, retention_policy>>

\* FrontStage::pop
QPop ==
    /\ QLive
    /\ front' = PopFront(front)
    /\ qlog' = [qlog EXCEPT !.op = "pop",
                            !.res = IF front = <<>> THEN "QueueEmpty" ELSE "Ok",
                            !.popped = IF front = <<>> THEN Absent ELSE Head(front),
                            !.preBack = back, !.preFront = front,
                            !.preCapacity = capacity.back]
    /\ UNCHANGED <<back, overflow_policy, retention_policy, capacity>>

(* ---------------------------------------------------------------------- *)
(* Channel endpoints                                                       *)
(* ---------------------------------------------------------------------- *)

\* FlushErrorIndicator::mark on the set of marked bits: marks &= 1 << i
FlushErrorIndicatorMark(marks, i) == marks \cap {i}

\* FlushErrorIndicator::is_err
FlushErrorIndicatorIsErr(marks) == marks # {}

RECURSIVE PushUntilError(_, _, _, _)
\* the inner loop of flush for one connection: push the values in order and
\* stop at the first one the consumer's back stage refuses
PushUntilError(op, items, values, count) ==
    IF values = <<>>
    THEN [items |-> items, count |-> count, err |-> FALSE]
    ELSE LET r == BackStagePush(op, items, Head(values)) IN
         IF r.res # "Ok"
         THEN [items |-> items, count |-> count, err |-> TRUE]
         ELSE PushUntilError(op, r.items, Tail(values), count + 1)

FlushPushed_MutCountsMovesAsClones(result, i, r, is_clone) ==
    [result EXCEPT !.conns[i].items = r.items,
                   !.cloned = @ + r.count,
                   !.published = @ + r.count,
                   !.marks = IF r.err THEN FlushErrorIndicatorMark(@, i - 1) ELSE @,
                   !.refused = IF r.err THEN @ \cup {i - 1} ELSE @]

\* flush, the bookkeeping after the pushes r to connection i (1-based): the
\* counters of the FlushResult and the error mark of the connection
FlushPushed(result, i, r, is_clone) ==
    [result EXCEPT !.conns[i].items = r.items,
                   !.cloned = IF is_clone THEN @ + r.count ELSE @,
                   !.published = @ + r.count,
                   !.marks = IF r.err THEN FlushErrorIndicatorMark(@, i - 1) ELSE @,
                   !.refused = IF r.err THEN @ \cup {i - 1} ELSE @]

RECURSIVE FlushClones(_, _, _)
\* flush, first loop: clones for connections 2..N (i is the 1-based position)
FlushClones(outbox, result, i) ==
    IF i > Len(result.conns)
    THEN result
    ELSE FlushClones(outbox,
                     FlushPushed(result, i,
                                 PushUntilError(result.conns[i].op,
                                                result.conns[i].items, outbox, 0),
                                 TRUE),
                     i + 1)

\* flush, second loop: the values are moved to the first connection
FlushFirst(outbox, result) ==
    IF Len(result.conns) >= 1
    THEN FlushPushed(result, 1,
                     PushUntilError(result.conns[1].op, result.conns[1].items,
                                    outbox, 0),
                     FALSE)
    ELSE result

\* DoubleBufferTx::flush: the connections afterwards and the FlushResult; the
\* outbox is empty afterwards. refused is the set of connections that refused
\* a push (not part of FlushResult)
TxFlush(outbox, conns) ==
    FlushFirst(outbox,
               FlushClones(outbox,
                           [conns |-> conns, available |-> Len(outbox),
                            cloned |-> 0, published |-> 0, marks |-> {},
                            refused |-> {}],
                           2))

DrainDropped_MutKeepsRest(items, taken) == SubSeq(items, taken + 1, Len(items))

\* BackStage::drain_all, the Drain dropped after `taken` of its items were
\* pushed: VecDeque::drain removes the whole range, taken or not
DrainDropped(items, taken) == <<>>

\* DoubleBufferTx::flush, the outbox afterwards: drained into the first of the
\* connections conns, or cleared when there is none
OutboxFlushed(outbox, conns) ==
    IF conns = <<>> THEN <<>>
    ELSE DrainDropped(outbox,
                      PushUntilError(conns[1].op, conns[1].items, outbox, 0).count)

\* MAX_RECEIVER_COUNT
MAX_RECEIVER_COUNT == 64

\* FlushResult::ZERO, the error indicator as the set of marked bits
FlushResultZero == [available |-> 0, cloned |-> 0, published |-> 0, marks |-> {}]

\* FlushErrorIndicator::get
FlushErrorIndicatorGet(marks, i) == i \in marks

\* a slot in which no consumer endpoint has been constructed
NoPolicy == [kind |-> "None", n |-> 0]
RxNone == [exists |-> FALSE, op |-> NoPolicy, rp |-> None,
           back |-> <<>>, front |-> <<>>, is_connected |-> FALSE]

\* DoubleBufferRx::new
DoubleBufferRxNew(op, rp) ==
    [exists |-> TRUE, op |-> op, rp |-> rp,
     back |-> <<>>, front |-> <<>>, is_connected |-> FALSE]

\* DoubleBufferTx::new
DoubleBufferTxNew(size) ==
    [op |-> [kind |-> "Reject", n |-> size], outbox |-> <<>>,
     connections |-> <<>>]

\* DoubleBufferTx::new_auto_size
DoubleBufferTxNewAutoSize ==
    [op |-> [kind |-> "Resize", n |-> 0], outbox |-> <<>>, connections |-> <<>>]

DoubleBufferTxConnect_MutNoConnectedCheck(tx, rx, i) ==
    IF Len(tx.connections) >= MAX_RECEIVER_COUNT
    THEN [tx |-> tx, rx |-> rx, res |-> "MaxConnectionCountExceeded"]
    ELSE IF tx.op.kind = "Resize" /\ rx.op.kind = "Reject"
    THEN [tx |-> tx, rx |-> rx, res |-> "PolicyMismatch"]
    ELSE [tx |-> [tx EXCEPT !.connections = Append(@, i)],
          rx |-> [rx EXCEPT !.is_connected = TRUE], res |-> "Ok"]

DoubleBufferTxConnect_MutLimitOffByOne(tx, rx, i) ==
    IF rx.is_connected
    THEN [tx |-> tx, rx |-> rx, res |-> "ReceiverAlreadyConnected"]
    ELSE IF Len(tx.connections) > MAX_RECEIVER_COUNT
    THEN [tx |-> tx, rx |-> rx, res |-> "MaxConnectionCountExceeded"]
    ELSE IF tx.op.kind = "Resize" /\ rx.op.kind = "Reject"
    THEN [tx |-> tx, rx |-> rx, res |-> "PolicyMismatch"]
    ELSE [tx |-> [tx EXCEPT !.connections = Append(@, i)],
          rx |-> [rx EXCEPT !.is_connected = TRUE], res |-> "Ok"]

DoubleBufferTxConnect_MutMismatchAnyBounded(tx, rx, i) ==
    IF rx.is_connected
    THEN [tx |-> tx, rx |-> rx, res |-> "ReceiverAlreadyConnected"]
    ELSE IF Len(tx.connections) >= MAX_RECEIVER_COUNT
    THEN [tx |-> tx, rx |-> rx, res |-> "MaxConnectionCountExceeded"]
    ELSE IF tx.op.kind = "Resize" /\ rx.op.kind \in {"Reject", "Forget"}
    THEN [tx |-> tx, rx |-> rx, res |-> "PolicyMismatch"]
    ELSE [tx |-> [tx EXCEPT !.connections = Append(@, i)],
          rx |-> [rx EXCEPT !.is_connected = TRUE], res |-> "Ok"]

\* DoubleBufferTx::connect of the consumer with identity i: the producer and
\* the consumer afterwards and the result. A connection holds the shared back
\* stage of the consumer, which the model names by the consumer's identity
DoubleBufferTxConnect(tx, rx, i) ==
    IF rx.is_connected
    THEN [tx |-> tx, rx |-> rx, res |-> "ReceiverAlreadyConnected"]
    ELSE IF Len(tx.connections) >= MAX_RECEIVER_COUNT
    THEN [tx |-> tx, rx |-> rx, res |-> "MaxConnectionCountExceeded"]
    ELSE IF tx.op.kind = "Resize" /\ rx.op.kind = "Reject"
    THEN [tx |-> tx, rx |-> rx, res |-> "PolicyMismatch"]
    ELSE [tx |-> [tx EXCEPT !.connections = Append(@, i)],
          rx |-> [rx EXCEPT !.is_connected = TRUE], res |-> "Ok"]

\* log of the last endpoint operation
CLogInit == [op |-> None, res |-> None, tx |-> 0, rx |-> 0,
             attempted |-> [op |-> NoPolicy, rp |-> None],
             preConnected |-> FALSE, preLen |-> 0,
             result |-> FlushResultZero, refused |-> {},
             preOutbox |-> <<>>, preBacks |-> <<>>, next |-> 1, count |-> 0,
             accepted |-> {}, last |-> <<>>, panicked |-> {},
             flushK |-> 0, done |-> {},
             preFront |-> <<>>, value |-> Absent, prevLast |-> 0,
             preFronts |-> <<>>, popped |-> <<>>]

\* the record of a call: what the previous call recorded is discarded, the
\* running counts, the values pushed and popped so far and the threads that
\* panicked are kept
CLogFresh == [CLogInit EXCEPT !.next = clog.next, !.count = clog.count,
                              !.accepted = clog.accepted, !.last = clog.last,
                              !.panicked = clog.panicked]

\* the record of a call of a consumer thread while the producer may be in the
\* middle of a flush: what is recorded of that flush is kept as well
CLogDuringFlush == [CLogFresh EXCEPT !.flushK = clog.flushK, !.done = clog.done,
                                     !.tx = clog.tx,
                                     !.preOutbox = clog.preOutbox,
                                     !.preBacks = clog.preBacks,
                                     !.result = clog.result,
                                     !.refused = clog.refused]

\* the overflow policies consumer endpoints are constructed with
ChanPolicies ==
    [kind : {"Reject", "Forget"}, n : 0..MaxChanCap]
        \cup {[kind |-> "Resize", n |-> 0]}

\* DoubleBufferRx::new in a free slot: BackStage::new panics on Keep with
\* Reject, and then no endpoint comes to exist
ChRxNew ==
    \E i \in DOMAIN rxs, op \in ChanPolicies, rp \in RetentionPolicies :
        /\ ~rxs[i].exists
        /\ rxs' = IF BackStageNewOk(op, rp)
                  THEN [rxs EXCEPT ![i] = DoubleBufferRxNew(op, rp)]
                  ELSE rxs
        /\ clog' = [CLogFresh EXCEPT !.op = "new", !.rx = i,
                                !.res = IF BackStageNewOk(op, rp)
                                        THEN "Ok" ELSE "Panic",
                                !.attempted = [op |-> op, rp |-> rp]]
        /\ UNCHANGED txs

\* tx.connect(&mut rx) of producer p and consumer i
ChConnectOf(p, i) ==
    /\ rxs[i].exists
    /\ \E r \in {DoubleBufferTxConnect(txs[p], rxs[i], i)} :
         /\ txs' = [txs EXCEPT ![p] = r.tx]
         /\ rxs' = [rxs EXCEPT ![i] = r.rx]
         /\ clog' = [CLogFresh EXCEPT !.op = "connect", !.tx = p, !.rx = i,
                                 !.res = r.res,
                                 !.preConnected = rxs[i].is_connected,
                                 !.preLen = Len(txs[p].connections),
                                 !.count = IF i > @ THEN i ELSE @]

\* connect calls among any producers and consumers
ChConnect == \E p \in DOMAIN txs, i \in DOMAIN rxs : ChConnectOf(p, i)

\* the loop of alice_many_bobs_codelets: the consumers are connected to the
\* one producer in order; a connect may be tried again for the last consumer
ChConnectInOrder ==
    \E i \in DOMAIN rxs :
        /\ i \in {clog.count, clog.count + 1}
        /\ ChConnectOf(1, i)

\* DoubleBufferTx::push of a fresh value by producer p
ChPush ==
    \E p \in DOMAIN txs :
        /\ clog.next <= MaxSend
        /\ \E r \in {BackStagePush(txs[p].op, txs[p].outbox, clog.next)} :
             /\ txs' = [txs EXCEPT ![p].outbox = r.items]
             /\ clog' = [CLogFresh EXCEPT !.op = "push", !.tx = p,
                                     !.res = IF r.res = "Ok" THEN "Ok"
                                             ELSE "QueueFull",
                                     !.accepted = IF r.res = "Ok"
                                                  THEN @ \cup {clog.next} ELSE @,
                                     !.next = @ + 1]
        /\ UNCHANGED rxs

\* the back stages the connections of a producer point to, in order
ConnectedBackStages(tx) ==
    [k \in DOMAIN tx.connections |->
        [op |-> rxs[tx.connections[k]].op,
         items |-> rxs[tx.connections[k]].back]]

\* the consumers after a flush f of producer tx: the back stage of every
\* connection holds what the flush left in it
FlushedInto(tx, f) ==
    [i \in DOMAIN rxs |->
        IF \E k \in DOMAIN tx.connections : tx.connections[k] = i
        THEN [rxs[i] EXCEPT !.back =
                 f.conns[CHOOSE k \in DOMAIN tx.connections :
                             tx.connections[k] = i].items]
        ELSE rxs[i]]

\* DoubleBufferTx::flush of producer p
ChFlush ==
    \E p \in DOMAIN txs :
        \E f \in {TxFlush(txs[p].outbox, ConnectedBackStages(txs[p]))} :
            /\ txs' = [txs EXCEPT ![p].outbox =
                          OutboxFlushed(@, ConnectedBackStages(txs[p]))]
            /\ rxs' = FlushedInto(txs[p], f)
            /\ clog' = [CLogFresh EXCEPT !.op = "flush", !.tx = p, !.res = "Ok",
                                    !.result = [available |-> f.available,
                                                cloned |-> f.cloned,
                                                published |-> f.published,
                                                marks |-> f.marks],
                                    !.refused = f.refused,
                                    !.preOutbox = txs[p].outbox,
                                    !.preBacks = [i \in DOMAIN rxs |-> rxs[i].back]]

(* ---------------------------------------------------------------------- *)
(* Channel endpoints on different threads                                  *)
(* ---------------------------------------------------------------------- *)

\* no thread holds the write lock of a back stage or is inside flush or sync
LocksNone == [held |-> {}, inside |-> {}]

\* the producer thread, among the identities of the threads that panicked
\* (a consumer thread has the identity of its endpoint)
ProducerThread == 0

FlushSection_MutFirstOnly(op, items, values) ==
    PushUntilError(op, items,
                   IF values = <<>> THEN <<>> ELSE <<Head(values)>>, 0)

\* flush, one loop over the outbox under the write lock of one connection's
\* back stage: the lock is held until the loop ends
FlushSection(op, items, values) == PushUntilError(op, items, values, 0)

FlushSectionInto_MutWritesFront(rx, r) ==
    [rx EXCEPT !.back = r.items, !.front = r.items]

\* the consumer endpoint after the section r of a flush on its back stage
FlushSectionInto(rx, r) == [rx EXCEPT !.back = r.items]

\* the position of the connection a flush serves first, and the one it serves
\* after position k: connections 2..N in order, then connection 1; 0 when
\* there is none
FlushFirstPosition(n) == IF n >= 2 THEN 2 ELSE n
FlushNextPosition(k, n) == IF k <= 1 THEN 0 ELSE IF k < n THEN k + 1 ELSE 1

\* the consumer's last popped value
LastPopped(i) == IF i \in DOMAIN clog.last THEN clog.last[i] ELSE 0

\* flush, the section r on connection k of producer p, counted into result;
\* after the last section the outbox is empty and the flush returns
ChFlushSection(p, k, batch, r, result) ==
    /\ rxs' = [rxs EXCEPT ![txs[p].connections[k]] = FlushSectionInto(@, r)]
    /\ txs' = IF FlushNextPosition(k, Len(txs[p].connections)) = 0
              THEN [txs EXCEPT ![p].outbox =
                       OutboxFlushed(@, ConnectedBackStages(txs[p]))]
              ELSE txs
    /\ clog' = [CLogFresh EXCEPT
                   !.op = IF FlushNextPosition(k, Len(txs[p].connections)) = 0
                          THEN "flush" ELSE "flushing",
                   !.tx = p, !.rx = txs[p].connections[k], !.res = "Ok",
                   !.flushK = FlushNextPosition(k, Len(txs[p].connections)),
                   !.done = (IF clog.flushK = 0 THEN {} ELSE clog.done)
                               \cup {txs[p].connections[k]},
                   !.result = [available |-> result.available,
                               cloned |-> result.cloned,
                               published |-> result.published,
                               marks |-> result.marks],
                   !.refused = result.refused,
                   !.preOutbox = batch,
                   !.preBacks = [i \in DOMAIN rxs |->
                                    IF i = txs[p].connections[k] THEN rxs[i].back
                                    ELSE IF clog.flushK # 0 /\ i \in clog.done
                                    THEN clog.preBacks[i] ELSE <<>>]]

\* DoubleBufferTx::flush of producer p on its own thread, one connection at a
\* time: the write lock of the connection's back stage is taken, the outbox is
\* pushed into it, and the lock is released; a lock poisoned by a consumer
\* that panicked while holding it makes the producer panic
ChFlushStep ==
    \E p \in DOMAIN txs :
        /\ ProducerThread \notin clog.panicked
        /\ \E k \in {IF clog.flushK = 0
                     THEN FlushFirstPosition(Len(txs[p].connections))
                     ELSE clog.flushK} :
             IF k = 0
             THEN /\ txs' = [txs EXCEPT ![p].outbox = OutboxFlushed(@, <<>>)]
                  /\ clog' = [CLogFresh EXCEPT
                                 !.op = "flush", !.tx = p, !.res = "Ok",
                                 !.result = [FlushResultZero EXCEPT
                                                !.available = Len(txs[p].outbox)]]
                  /\ UNCHANGED rxs
             ELSE IF txs[p].connections[k] \in clog.panicked
             THEN /\ clog' = [CLogFresh EXCEPT
                                 !.op = "flush", !.tx = p, !.res = "Panic",
                                 !.panicked = @ \cup {ProducerThread}]
                  /\ UNCHANGED <<txs, rxs>>
             ELSE \E conns \in {ConnectedBackStages(txs[p])} :
                     \E r \in {FlushSection(conns[k].op, conns[k].items,
                                            txs[p].outbox)} :
                        ChFlushSection(p, k, txs[p].outbox, r,
                            FlushPushed([conns |-> conns,
                                         available |-> Len(txs[p].outbox),
                                         cloned |-> IF clog.flushK = 0 THEN 0
                                                    ELSE clog.result.cloned,
                                         published |-> IF clog.flushK = 0 THEN 0
                                                       ELSE clog.result.published,
                                         marks |-> IF clog.flushK = 0 THEN {}
                                                   ELSE clog.result.marks,
                                         refused |-> IF clog.flushK = 0 THEN {}
                                                     ELSE clog.refused],
                                        k, r, k # 1))

\* DoubleBufferRx::sync of consumer i on its own thread, under the write lock
\* of its back stage; a panic inside poisons the lock and ends the thread
ChSync ==
    \E i \in DOMAIN rxs :
        /\ rxs[i].exists
        /\ i \notin clog.panicked
        /\ \E s \in {BackStageSync(rxs[i].op, rxs[i].rp, rxs[i].back,
                                   rxs[i].front)} :
             /\ rxs' = [rxs EXCEPT ![i].back = s.back, ![i].front = s.front]
             /\ clog' = [CLogDuringFlush EXCEPT
                            !.op = "sync", !.rx = i, !.res = s.res,
                            !.preFront = rxs[i].front,
                            !.panicked = IF s.res = "Panic" THEN @ \cup {i} ELSE @]
        /\ UNCHANGED txs

\* DoubleBufferRx::pop of consumer i
ChPop ==
    \E i \in DOMAIN rxs :
        /\ rxs[i].exists
        /\ i \notin clog.panicked
        /\ rxs' = [rxs EXCEPT ![i].front = PopFront(@)]
        /\ clog' = [CLogDuringFlush EXCEPT
                       !.op = "pop", !.rx = i,
                       !.res = IF rxs[i].front = <<>> THEN "QueueEmpty" ELSE "Ok",
                       !.preFront = rxs[i].front,
                       !.value = IF rxs[i].front = <<>> THEN Absent
                                 ELSE Head(rxs[i].front),
                       !.prevLast = LastPopped(i),
                       !.last = IF rxs[i].front = <<>> THEN @
                                ELSE [j \in 1..Max(i, Len(@)) |->
                                         IF j = i THEN Head(rxs[i].front)
                                         ELSE LastPopped(j)]]
        /\ UNCHANGED txs

\* DoubleBufferRx::clear of consumer i
ChClear ==
    \E i \in DOMAIN rxs :
        /\ rxs[i].exists
        /\ i \notin clog.panicked
        /\ rxs[i].front # <<>>
        /\ rxs' = [rxs EXCEPT ![i].front = <<>>]
        /\ clog' = [CLogDuringFlush EXCEPT !.op = "clear", !.rx = i, !.res = "Ok",
                                           !.preFront = rxs[i].front]
        /\ UNCHANGED txs

\* the producer thread outside a flush: DoubleBufferTx::push
ChSend ==
    /\ ProducerThread \notin clog.panicked
    /\ clog.flushK = 0
    /\ clog.next <= MaxRace
    /\ ChPush

\* connections are made in order before the producer thread sends
ChSetup ==
    /\ clog.next = 1
    /\ clog.flushK = 0
    /\ ChConnectInOrder

(* ---------------------------------------------------------------------- *)
(* Codelet instances                                                       *)
(* ---------------------------------------------------------------------- *)

Inst == DOMAIN kinds

\* the policies of the test codelets' endpoints
AliceOutboxPolicy == [kind |-> "Reject", n |-> 1]
BobOverflowPolicy == [kind |-> "Reject", n |-> 1]
BobRetentionPolicy == "Drop"

ChanInit == [outbox |-> <<>>, back |-> <<>>, front |-> <<>>,
             num_sent |-> 0, num_recv |-> 0,
             sent |-> <<>>, recv |-> <<>>, refused |-> 0,
             sentAtStop |-> Absent, recvAtStop |-> Absent,
             countdown |-> Absent, num_messages |-> Absent]

\* the state a transition works on, and whether a panic unwound the thread
World == [sm_state |-> sm_state, next_transition |-> next_transition,
          num_steps |-> num_steps, mem |-> mem, chan |-> chan, hist |-> hist,
          rx_control |-> rx_control, statistics |-> statistics,
          panic |-> FALSE]

\* TransitionStatistics::new, with the counts of the two CountTotal
TransitionStatisticsNew ==
    [duration |-> 0, period |-> 0, skipped_count |-> 0, last_exec_begin |-> FALSE]

\* Statistics::new
StatisticsNew == [t \in Transitions |-> TransitionStatisticsNew]

\* TransitionStatistics::begin
TransitionStatisticsBegin(s) ==
    [s EXCEPT !.period = IF s.last_exec_begin THEN @ + 1 ELSE @,
              !.last_exec_begin = TRUE]

TransitionStatisticsEnd_MutCountsBoth(s, skipped) ==
    [s EXCEPT !.skipped_count = @ + 1, !.duration = @ + 1]

\* TransitionStatistics::end
TransitionStatisticsEnd(s, skipped) ==
    IF skipped
    THEN [s EXCEPT !.skipped_count = @ + 1]
    ELSE [s EXCEPT !.duration = @ + 1]

\* bookkeeping: the user hook of instance i for transition t is entered
HookInvoked(h, i, t) ==
    [h EXCEPT !.started[i] = @ \/ t = "Start",
              !.steps[i] = IF t = "Step" THEN @ + 1 ELSE @,
              !.stops[i] = IF t = "Stop" THEN @ + 1 ELSE @]

\* CodeletInstance::start/step/stop of a codelet with empty bundles whose hook
\* returns the given outcome
GenericCycle(w, i, t, outcome) ==
    [w |-> [w EXCEPT !.hist = HookInvoked(w.hist, i, t)], res |-> outcome]

\* Alice's Tx bundle after the flush f of its outbox
AliceFlushed(w, f) ==
    [w |-> [w EXCEPT !.chan.outbox = <<>>,
                     !.chan.back = f.conns[1].items,
                     !.chan.refused = @ + Cardinality(f.refused)],
     err |-> FlushErrorIndicatorIsErr(f.marks)]

\* CodeletInstance::flush of Alice's Tx bundle (one connection, to Bob)
AliceFlush(w) ==
    CHOOSE r \in {AliceFlushed(w, f) :
                     f \in {TxFlush(w.chan.outbox,
                                    <<[op |-> BobOverflowPolicy,
                                       items |-> w.chan.back]>>)}} : TRUE

\* Alice::step after the push p of the next number to the outbox
\* NUM_MESSAGES of the test: the step cap of the schedule where it has one
NUM_MESSAGES(w) ==
    IF max_step_count # Absent THEN max_step_count ELSE w.chan.num_messages

AliceStep(w0, p) ==
    IF p.res # "Ok"
    THEN [w |-> [w0 EXCEPT !.chan.sent = Append(@, Absent)],
          res |-> "Err", flush |-> FALSE]
    ELSE [w |-> [w0 EXCEPT !.chan.outbox = p.items,
                           !.chan.num_sent = @ + 1,
                           !.chan.sent = Append(@, w0.chan.num_sent)],
          res |-> "Running", flush |-> TRUE]

\* Alice's hooks: the state after the hook, its outcome, and whether the
\* instance goes on to flush (the `?` after the hook returns on an error)
AliceHook(w0, t) ==
    CASE t = "Step" ->
            AliceStep(w0, BackStagePush(AliceOutboxPolicy, w0.chan.outbox,
                                        w0.chan.num_sent))
      [] t = "Stop" ->
            IF w0.chan.num_sent # NUM_MESSAGES(w0)
            THEN [w |-> [w0 EXCEPT !.panic = TRUE,
                                   !.chan.sentAtStop = w0.chan.num_sent],
                  res |-> "Err", flush |-> FALSE]
            ELSE [w |-> [w0 EXCEPT !.chan.sentAtStop = w0.chan.num_sent],
                  res |-> "Running", flush |-> TRUE]
      [] OTHER -> [w |-> w0, res |-> "Skipped", flush |-> TRUE]

\* the flush after a hook, and the outcome of the whole transition
FlushOutcome(f, res) == [w |-> f.w, res |-> IF f.err THEN "Err" ELSE res]

\* CodeletInstance::start/step/stop after Alice's hook h
AliceAfterHook(h) ==
    IF h.flush
    THEN CHOOSE r \in {FlushOutcome(f, h.res) : f \in {AliceFlush(h.w)}} : TRUE
    ELSE [w |-> h.w, res |-> h.res]

\* CodeletInstance::start/step/stop around Alice's hooks
AliceCycle(w, i, t) ==
    CHOOSE r \in {AliceAfterHook(h) :
                     h \in {AliceHook([w EXCEPT !.hist = HookInvoked(w.hist, i, t)],
                                      t)}} : TRUE

\* Bob's hooks on the state w1 after the sync of the Rx bundle
BobHook(w1, t) ==
    CASE t = "Step" ->
            IF w1.chan.front = <<>>
            THEN [w |-> [w1 EXCEPT !.chan.recv = Append(@, Absent)],
                  res |-> "Err"]
            ELSE IF Head(w1.chan.front) # w1.chan.num_recv
                 THEN [w |-> [w1 EXCEPT !.chan.front = Tail(@),
                                        !.chan.recv = Append(@, Head(w1.chan.front)),
                                        !.panic = TRUE],
                       res |-> "Err"]
                 ELSE [w |-> [w1 EXCEPT !.chan.front = Tail(@),
                                        !.chan.recv = Append(@, Head(w1.chan.front)),
                                        !.chan.num_recv = @ + 1],
                       res |-> "Running"]
      [] t = "Stop" ->
            IF w1.chan.num_recv # NUM_MESSAGES(w1)
            THEN [w |-> [w1 EXCEPT !.panic = TRUE,
                                   !.chan.recvAtStop = w1.chan.num_recv],
                  res |-> "Err"]
            ELSE [w |-> [w1 EXCEPT !.chan.recvAtStop = w1.chan.num_recv],
                  res |-> "Running"]
      [] OTHER -> [w |-> w1, res |-> "Skipped"]

\* CodeletInstance::start/step/stop after the sync s of Bob's Rx bundle: a
\* failed sync returns before the hook
BobSynced(w, i, t, s) ==
    IF s.res # "Ok"
    THEN [w |-> [w EXCEPT !.chan.back = s.back, !.chan.front = s.front],
          res |-> "Err"]
    ELSE BobHook([w EXCEPT !.chan.back = s.back, !.chan.front = s.front,
                           !.hist = HookInvoked(w.hist, i, t)], t)

\* CodeletInstance::start/step/stop around Bob's hooks
BobCycle(w, i, t) ==
    CHOOSE r \in {BobSynced(w, i, t, s) :
                     s \in {BackStageSync(BobOverflowPolicy, BobRetentionPolicy,
                                          w.chan.back, w.chan.front)}} : TRUE

\* the Rx endpoint of a codelet that must consume what it receives: the
\* consumer side of fixed_channel(1)
ConsumerOverflowPolicy == [kind |-> "Reject", n |-> 1]
ConsumerRetentionPolicy == "EnforceEmpty"

\* record of the consumer's last transition within a spin or finalize: whether
\* its front held items on entry, whether the sync reported a violation,
\* whether the hook and the flush were reached, and the outcome
RxLogNone == [t |-> None, leftover |-> FALSE, violation |-> FALSE,
              hook |-> FALSE, flush |-> FALSE, res |-> None]

\* the hooks of a codelet with one EnforceEmpty Rx endpoint, on the state w1
\* after the sync: a hook that returns Running has consumed the front, one
\* that returns Skipped or fails has left it; the flush follows unless the
\* hook failed
ConsumerHook(w1, t, outcome) ==
    [w |-> [w1 EXCEPT !.chan.front = IF outcome = "Running" THEN <<>> ELSE @,
                      !.hist.rxlog.hook = TRUE,
                      !.hist.rxlog.flush = outcome # "Err",
                      !.hist.rxlog.res = outcome],
     res |-> outcome]

ConsumerSynced_MutIgnoresViolation(w, i, t, outcome, s, r) ==
    ConsumerHook([w EXCEPT !.chan.back = s.back, !.chan.front = s.front,
                           !.hist = [HookInvoked(w.hist, i, t) EXCEPT
                                        !.rxlog = [RxLogNone EXCEPT
                                            !.t = t,
                                            !.leftover = w.chan.front # <<>>]]],
                 t, outcome)

\* CodeletInstance::start/step/stop after the sync of the Rx bundle left the
\* stages s and reported r: a violation returns before the hook
ConsumerSynced(w, i, t, outcome, s, r) ==
    IF r.enforce_empty_violation
    THEN [w |-> [w EXCEPT !.chan.back = s.back, !.chan.front = s.front,
                          !.hist.rxlog = [RxLogNone EXCEPT
                                             !.t = t,
                                             !.leftover = w.chan.front # <<>>,
                                             !.violation = TRUE,
                                             !.res = "Err"]],
          res |-> "Err"]
    ELSE ConsumerHook([w EXCEPT !.chan.back = s.back, !.chan.front = s.front,
                                !.hist = [HookInvoked(w.hist, i, t) EXCEPT
                                             !.rxlog = [RxLogNone EXCEPT
                                                 !.t = t,
                                                 !.leftover = w.chan.front # <<>>]]],
                      t, outcome)

\* CodeletInstance::start/step/stop of the consumer
ConsumerCycle(w, i, t, outcome) ==
    CHOOSE r \in {ConsumerSynced(w, i, t, outcome, s,
                                 SyncResultOf(ConsumerOverflowPolicy,
                                              ConsumerRetentionPolicy,
                                              w.chan.back, w.chan.front)) :
                     s \in {BackStageSync(ConsumerOverflowPolicy,
                                          ConsumerRetentionPolicy,
                                          w.chan.back, w.chan.front)}} : TRUE

\* Vise::cycle -> CodeletInstance::execute for instance i
\* Terminator::step on the state w0 in which the hook is recorded: at
\* countdown 0 it sends RequestStop on the control channel
TerminatorStep(w0) ==
    IF w0.chan.countdown = 0
    THEN [w |-> [w0 EXCEPT !.rx_control = @ + 1], res |-> "Running"]
    ELSE [w |-> [w0 EXCEPT !.chan.countdown = @ - 1], res |-> "Running"]

\* CodeletInstance::start/step/stop around the Terminator's hooks: it has
\* empty bundles and the default start and stop
TerminatorCycle(w, i, t) ==
    IF t = "Step"
    THEN TerminatorStep([w EXCEPT !.hist = HookInvoked(w.hist, i, t)])
    ELSE [w |-> [w EXCEPT !.hist = HookInvoked(w.hist, i, t)], res |-> "Skipped"]

InstanceCycle(w, i, t, outcome) ==
    CASE kinds[i] = "alice" -> AliceCycle(w, i, t)
      [] kinds[i] = "bob" -> BobCycle(w, i, t)
      [] kinds[i] = "consumer" -> ConsumerCycle(w, i, t, outcome)
      [] kinds[i] = "terminator" -> TerminatorCycle(w, i, t)
      [] OTHER -> GenericCycle(w, i, t, outcome)

\* Vise::cycle after the instance's cycle c: an error has returned before
\* stats.end, and so has a panic
ViseCycleEnd(c, i, t) ==
    IF c.res \in OutcomeKinds /\ ~c.w.panic
    THEN [w |-> [c.w EXCEPT !.statistics[i][t] =
                     TransitionStatisticsEnd(@, c.res = "Skipped")],
          res |-> c.res]
    ELSE [w |-> c.w, res |-> c.res]

\* Vise::cycle; the statistics are kept for the observed instances
ViseCycle(w, i, t, outcome) ==
    IF i \in DOMAIN w.statistics
    THEN CHOOSE r \in
             {ViseCycleEnd(c, i, t) :
                 c \in {InstanceCycle([w EXCEPT !.statistics[i][t] =
                                           TransitionStatisticsBegin(@)],
                                      i, t, outcome)}} : TRUE
    ELSE InstanceCycle(w, i, t, outcome)

(* ---------------------------------------------------------------------- *)
(* Sequence and schedule executor                                          *)
(* ---------------------------------------------------------------------- *)

\* bookkeeping: an invocation of the instance's cycle returned res
CycleReturned(w, i, t, res) ==
    IF i \in DOMAIN w.hist.cycles
    THEN [w EXCEPT !.hist.cycles[i][t].begun = @ + 1,
                   !.hist.cycles[i][t].Running = IF res = "Running"
                                                 THEN @ + 1 ELSE @,
                   !.hist.cycles[i][t].Skipped = IF res = "Skipped"
                                                 THEN @ + 1 ELSE @]
    ELSE w

\* StateMachine<DynamicVise>::transition for instance i, given the inner
\* cycle c and the state machine's verdict r on it
MemberResult(w, i, t, c, r) ==
    IF ~r.called
    THEN [w |-> w, res |-> r.result]
    ELSE IF c.w.panic
         THEN [w |-> CycleReturned(c.w, i, t, "Panic"), res |-> "Panic"]
         ELSE [w |-> [CycleReturned(c.w, i, t, c.res) EXCEPT !.mem[i] = r.state],
               res |-> r.result]

\* StateMachine<DynamicVise>::transition for instance i around the cycle c
MemberCycled(w, i, t, c) ==
    MemberResult(w, i, t, c, SmTransition(w.mem[i], t, c.res))

\* StateMachine<DynamicVise>::transition for instance i
MemberTransition(w, i, t, hooks) ==
    IF w.panic
    THEN [w |-> w, res |-> "Panic"]
    ELSE CHOOSE r \in {MemberCycled(w, i, t, c) :
                          c \in {ViseCycle(w, i, t, hooks[i])}} : TRUE

MemberMarked_MutPrepends(acc, i, r) ==
    [w |-> r.w,
     failures |-> IF r.res \in OutcomeKinds
                  THEN acc.failures
                  ELSE <<i>> \o acc.failures,
     results |-> Append(acc.results, [member |-> i, res |-> r.res])]

\* SequenceExec::cycle, the body of the loop: the result r of member i, marked
\* as a failure unless it is an outcome
MemberMarked(acc, i, r) ==
    [w |-> r.w,
     failures |-> IF r.res \in OutcomeKinds
                  THEN acc.failures
                  ELSE Append(acc.failures, i),
     results |-> Append(acc.results, [member |-> i, res |-> r.res])]

RECURSIVE SequenceExecLoop(_, _, _, _)
\* SequenceExec::cycle, the loop: every member gets the transition
SequenceExecLoop(acc, items, t, hooks) ==
    IF items = <<>>
    THEN acc
    ELSE CHOOSE r \in
             {SequenceExecLoop(a, Tail(items), t, hooks) :
                 a \in {MemberMarked(acc, Head(items), m) :
                           m \in {MemberTransition(acc.w, Head(items), t, hooks)}}} :
             TRUE

\* bookkeeping, where the sequences are observed: what each member of the
\* sequence returned, the error bag and the return value of the cycle
SequenceLogged(acc, res) ==
    IF acc.w.hist.observed
    THEN [acc.w EXCEPT !.hist.seqlog =
             Append(@, [results |-> acc.results, failures |-> acc.failures,
                        res |-> res])]
    ELSE acc.w

SequenceExecResult_MutSwallowsFailures(acc) ==
    [w |-> SequenceLogged(acc, "Running"), res |-> "Running", failures |-> <<>>]

\* SequenceExec::cycle, the return value: an error when a member failed
SequenceExecResult(acc) ==
    [w |-> SequenceLogged(acc, IF acc.failures = <<>> THEN "Running" ELSE "Err"),
     res |-> IF acc.failures = <<>> THEN "Running" ELSE "Err",
     failures |-> acc.failures]

\* SequenceExec::cycle: every member gets the transition, failures are marked
SequenceExecCycle(w, items, t, hooks) ==
    CHOOSE r \in {SequenceExecResult(acc) :
                     acc \in {SequenceExecLoop([w |-> w, failures |-> <<>>,
                                                results |-> <<>>],
                                               items, t, hooks)}} : TRUE

\* SequenceGroupExec::cycle, the body of the loop: the result r of a sequence
\* and whether any sequence so far is running
SequenceCycled(acc, r) ==
    [w |-> r.w, err |-> r.res = "Err",
     is_any_running |-> acc.is_any_running \/ r.res = "Running"]

RECURSIVE SequenceGroupExecLoop(_, _, _, _)
\* SequenceGroupExec::cycle, the loop: sequences in order, returning at the
\* first error
SequenceGroupExecLoop(acc, items, t, hooks) ==
    IF items = <<>> \/ acc.err
    THEN acc
    ELSE CHOOSE r \in
             {SequenceGroupExecLoop(a, Tail(items), t, hooks) :
                 a \in {SequenceCycled(acc, s) :
                           s \in {SequenceExecCycle(acc.w, Head(items), t, hooks)}}} :
             TRUE

\* SequenceGroupExec::cycle, the return value
SequenceGroupExecResult(acc) ==
    [w |-> acc.w,
     res |-> IF acc.err THEN "Err"
             ELSE IF acc.is_any_running THEN "Running" ELSE "Skipped"]

\* SequenceGroupExec::cycle
SequenceGroupExecCycle(w, items, t, hooks) ==
    CHOOSE r \in
        {SequenceGroupExecResult(acc) :
            acc \in {SequenceGroupExecLoop([w |-> w, err |-> FALSE,
                                            is_any_running |-> FALSE],
                                           items, t, hooks)}} : TRUE

\* StateMachine<SequenceGroupExec>::transition, given the inner cycle c and
\* the state machine's verdict r on it
ScheduleResult(w, c, r) ==
    IF ~r.called
    THEN [w |-> w, res |-> r.result]
    ELSE [w |-> [c.w EXCEPT !.sm_state = r.state], res |-> r.result]

\* StateMachine<SequenceGroupExec>::transition around the cycle c
ScheduleCycled(w, t, c) ==
    ScheduleResult(w, c, SmTransition(w.sm_state, t, c.res))

\* StateMachine<SequenceGroupExec>::transition: ScheduleExecutor.sm.transition
ScheduleTransition(w, t, hooks) ==
    CHOOSE r \in {ScheduleCycled(w, t, c) :
                     c \in {SequenceGroupExecCycle(w, sequences, t, hooks)}} : TRUE

NextTransitionAfter_MutStopAgain(transition, res) ==
    IF res \in OutcomeKinds
    THEN IF transition \in {"Start", "Step", "Resume"} THEN "Step" ELSE None
    ELSE "Stop"

\* ScheduleExecutor::spin, the match on the result: the next transition after
\* executing `transition` with the given result
NextTransitionAfter(transition, res) ==
    IF res \in OutcomeKinds
    THEN IF transition \in {"Start", "Step", "Resume"} THEN "Step" ELSE None
    ELSE IF transition = "Stop" THEN None ELSE "Stop"

StepCapReached_MutOffByOne(w) ==
    /\ w.next_transition # None
    /\ max_step_count # Absent
    /\ w.num_steps > max_step_count

\* ScheduleExecutor::spin, the head: whether the max-step cap overrides the
\* next transition
StepCapReached(w) ==
    /\ w.next_transition # None
    /\ max_step_count # Absent
    /\ w.num_steps >= max_step_count

\* bookkeeping at the entry of spin: what the previous spin executed
SpinEntered(w) ==
    [w.hist EXCEPT !.op = "spin", !.rxlog = RxLogNone, !.seqlog = <<>>,
                   !.prevNext = w.next_transition,
                   !.prevExecuted = w.hist.executed,
                   !.prevOk = w.hist.ok,
                   !.stepsAtEntry = w.num_steps]

\* ScheduleExecutor::spin, the tail: the next transition from the result r of
\* the executed transition
SpinResult(transition, r) ==
    [r.w EXCEPT !.next_transition = NextTransitionAfter(transition, r.res),
                !.hist.executed = transition,
                !.hist.ok = r.res \in OutcomeKinds]

\* ScheduleExecutor::spin with the transition to execute decided
SpinTransition(w, transition, hooks) ==
    IF transition = None
    THEN [w EXCEPT !.hist = [SpinEntered(w) EXCEPT !.executed = None, !.ok = TRUE]]
    ELSE CHOOSE n \in
             {SpinResult(transition, r) :
                 r \in {ScheduleTransition(
                           [w EXCEPT !.next_transition = transition,
                                     !.num_steps = IF transition = "Step"
                                                   THEN @ + 1 ELSE @,
                                     !.hist = [SpinEntered(w) EXCEPT
                                         !.stepsExecuted = IF transition = "Step"
                                                           THEN @ + 1 ELSE @]],
                           transition, hooks)}} : TRUE

\* ScheduleExecutor::spin
ScheduleSpin(w, hooks) ==
    SpinTransition(w, IF StepCapReached(w) THEN "Stop" ELSE w.next_transition,
                   hooks)

\* ScheduleExecutor::finalize after the Stop transition r: unwrap() panics on
\* an error
FinalizeResult(r) ==
    IF r.res \in OutcomeKinds
    THEN [r.w EXCEPT !.next_transition = None, !.hist.op = "finalize",
                     !.hist.finalStop = TRUE]
    ELSE [r.w EXCEPT !.panic = TRUE, !.hist.op = "finalize",
                     !.hist.finalStop = TRUE]

\* ScheduleExecutor::finalize
ScheduleFinalize(w, hooks) ==
    IF IsValidRequest(w.sm_state, "Stop")
    THEN CHOOSE n \in
             {FinalizeResult(r) :
                 r \in {ScheduleTransition([w EXCEPT !.hist.rxlog = RxLogNone,
                                                     !.hist.seqlog = <<>>],
                                           "Stop", hooks)}} : TRUE
    ELSE [w EXCEPT !.hist.op = "finalize", !.hist.rxlog = RxLogNone,
                   !.hist.seqlog = <<>>]

\* ScheduleExecutor::is_terminated
IsTerminated == next_transition = None

(* ---------------------------------------------------------------------- *)
(* Worker thread and executor                                              *)
(* ---------------------------------------------------------------------- *)

\* record of the invocations of one transition of one instance: how many
\* were begun and how many returned Running or Skipped
CyclesNone == [begun |-> 0, Running |-> 0, Skipped |-> 0]

HistInit == [started |-> [i \in Inst |-> FALSE],
             steps |-> [i \in Inst |-> 0],
             stops |-> [i \in Inst |-> 0],
             op |-> None, executed |-> None, ok |-> TRUE, prevNext |-> None,
             prevExecuted |-> None, prevOk |-> TRUE, stepsAtEntry |-> 0,
             stepsExecuted |-> 0, finalStop |-> FALSE, requested |-> 0,
             rxlog |-> RxLogNone, reports |-> 0, returned |-> 0,
             lastReply |-> None, cycles |-> <<>>, observed |-> FALSE,
             seqlog |-> <<>>]

SetWorld(w) ==
    /\ sm_state' = w.sm_state
    /\ next_transition' = w.next_transition
    /\ num_steps' = w.num_steps
    /\ mem' = w.mem
    /\ chan' = w.chan
    /\ hist' = w.hist
    /\ rx_control' = w.rx_control
    /\ statistics' = w.statistics

\* WorkerReply::Report(state.schedule.report()): final tells the report sent
\* after the loop from the replies to Report requests
WorkerReply(final) == [final |-> final]

\* Worker::worker_thread, one pass of the loop: a pending Stop request breaks
\* the loop, otherwise the schedule spins and the loop ends when it terminated.
\* A spin whose Terminator finds the control channel full blocks in its send
\* (pc = "blocked"), after try_recv, and goes on when a slot is free.
WorkerLoop ==
    /\ pc \in {"loop", "blocked"}
    /\ IF pc = "loop" /\ rx_request # <<>> /\ Head(rx_request) = "Stop"
       THEN /\ rx_request' = Tail(rx_request)
            /\ pc' = "finalize"
            /\ UNCHANGED <<sm_state, next_transition, num_steps, mem, chan, hist,
                           rx_reply, rx_control, statistics>>
       ELSE /\ max_step_count = Absent => (num_steps < MaxSteps \/ rx_control > 0)
            /\ IF pc = "loop" /\ rx_request # <<>>
               THEN /\ rx_request' = Tail(rx_request)
                    /\ rx_reply' = Append(rx_reply, WorkerReply(FALSE))
               ELSE UNCHANGED <<rx_request, rx_reply>>
            /\ \E hooks \in [Inst -> InnerOutcomes] :
                 \E w \in {ScheduleSpin(World, hooks)} :
                    IF w.rx_control > CONTROL_CAPACITY
                    THEN /\ pc' = "blocked"
                         /\ UNCHANGED <<sm_state, next_transition, num_steps, mem,
                                        chan, hist, rx_control, statistics>>
                    ELSE /\ SetWorld(w)
                         /\ pc' = IF w.panic THEN "panicked"
                                  ELSE IF w.next_transition = None THEN "finalize"
                                  ELSE "loop"
    /\ UNCHANGED <<series, executor, sequences, kinds, max_step_count, main>>

\* Worker::worker_thread after the loop: finalize, then the thread ends
WorkerFinalize ==
    /\ pc = "finalize"
    /\ \E hooks \in [Inst -> InnerOutcomes] :
         \E w \in {ScheduleFinalize(World, hooks)} :
            /\ SetWorld(w)
            /\ pc' = IF w.panic THEN "panicked" ELSE "exited"
            /\ rx_reply' = IF w.panic THEN rx_reply
                           ELSE Append(rx_reply, WorkerReply(TRUE))
    /\ UNCHANGED <<series, executor, sequences, kinds, max_step_count, rx_request, main>>

\* Executor::request_stop: send Stop to the worker; the send fails when the
\* worker thread has ended
ExecutorRequestStop ==
    /\ hist.requested < MaxRequests
    /\ hist' = [hist EXCEPT !.requested = @ + 1]
    /\ rx_request' = IF pc \in {"exited", "panicked"}
                     THEN rx_request
                     ELSE Append(rx_request, "Stop")
    /\ UNCHANGED <<series, executor, sequences, kinds, max_step_count, sm_state, next_transition,
                   num_steps, mem, chan, pc, rx_reply, rx_control, main,
                   statistics>>

\* Runtime::spin, the receive: recv_timeout returns a RequestStop waiting in
\* the control channel, which frees one of its slots
RuntimeSpin ==
    /\ main = "idle"
    /\ rx_control > 0
    /\ rx_control' = rx_control - 1
    /\ main' = "request_stop"
    /\ UNCHANGED <<series, executor, sequences, kinds, max_step_count, sm_state, next_transition,
                   num_steps, mem, chan, pc, rx_request, rx_reply, statistics, hist>>

\* Runtime::spin, Executor::request_stop: Stop is sent to the worker, which
\* fails silently when the worker thread has ended
RuntimeRequestStop ==
    /\ main = "request_stop"
    /\ hist' = [hist EXCEPT !.requested = @ + 1]
    /\ rx_request' = IF pc \in {"exited", "panicked"}
                     THEN rx_request
                     ELSE Append(rx_request, "Stop")
    /\ main' = "join"
    /\ UNCHANGED <<series, executor, sequences, kinds, max_step_count, sm_state, next_transition,
                   num_steps, mem, chan, pc, rx_reply, rx_control, statistics>>

\* Runtime::spin, Executor::join: returns when the worker thread has ended,
\* and spin breaks out of its loop
RuntimeJoin ==
    /\ main = "join"
    /\ pc \in {"exited", "panicked"}
    /\ main' = "joined"
    /\ UNCHANGED <<series, executor, sequences, kinds, max_step_count, sm_state, next_transition,
                   num_steps, mem, chan, pc, rx_request, rx_reply, rx_control,
                   statistics, hist>>

\* Runtime::spin after the loop: the report printed last is the final report
\* of the worker; Worker::report panics when the thread ended without one
RuntimeFinish ==
    /\ main = "joined"
    /\ IF rx_reply # <<>>
       THEN /\ rx_reply' = Tail(rx_reply)
            /\ main' = "returned"
       ELSE /\ main' = "panicked"
            /\ UNCHANGED rx_reply
    /\ UNCHANGED <<series, executor, sequences, kinds, max_step_count, sm_state, next_transition,
                   num_steps, mem, chan, pc, rx_request, rx_control,
                   statistics, hist>>

\* Executor::report, Worker::report up to the blocking receive: the Report
\* request is sent, which fails silently when the worker thread has ended
ExecutorReport ==
    /\ main = "idle"
    /\ hist.reports < MaxReports
    /\ hist' = [hist EXCEPT !.reports = @ + 1]
    /\ rx_request' = IF pc \in {"exited", "panicked"}
                     THEN rx_request
                     ELSE Append(rx_request, "Report")
    /\ main' = "report"
    /\ UNCHANGED <<series, executor, sequences, kinds, max_step_count, sm_state, next_transition,
                   num_steps, mem, chan, pc, rx_reply, rx_control, statistics>>

\* Worker::report, rx_reply.recv(): it returns the oldest reply, blocks while
\* the channel is empty and the worker thread lives, and panics on the error
\* it gets when the channel is empty and the worker thread has ended
WorkerReportRecv ==
    /\ main = "report"
    /\ IF rx_reply # <<>>
       THEN /\ rx_reply' = Tail(rx_reply)
            /\ hist' = [hist EXCEPT !.returned = @ + 1,
                                    !.lastReply = Head(rx_reply)]
            /\ main' = "idle"
       ELSE /\ pc \in {"exited", "panicked"}
            /\ main' = "panicked"
            /\ UNCHANGED <<rx_reply, hist>>
    /\ UNCHANGED <<series, executor, sequences, kinds, max_step_count, sm_state, next_transition,
                   num_steps, mem, chan, pc, rx_request, rx_control, statistics>>

(* ---------------------------------------------------------------------- *)
(* Time series                                                             *)
(* ---------------------------------------------------------------------- *)

\* no time series, nothing searched
SeriesNone == [data |-> <<>>, criteria |-> None, time |-> 0, index |-> Absent]

IsAfter_MutNotBefore(t, time) == t >= time

\* find_index_by_time, the closure handed to find_index_by: |&(t, _)| t > time
IsAfter(t, time) == t > time

RECURSIVE FindEarliest(_, _, _)
\* find_index_by, FindCriteria::Earliest: iter().enumerate().find(f) from
\* position i on; indices count from 0, Absent is Option::None
FindEarliest(data, time, i) ==
    IF i > Len(data)
    THEN Absent
    ELSE IF IsAfter(data[i], time)
         THEN i - 1
         ELSE FindEarliest(data, time, i + 1)

RECURSIVE FindLatest(_, _, _, _)
\* find_index_by, FindCriteria::Latest: the loop from position i on with the
\* local idx
FindLatest(data, time, i, idx) ==
    IF i > Len(data)
    THEN idx
    ELSE IF IsAfter(data[i], time)
         THEN idx
         ELSE FindLatest(data, time, i + 1, i - 1)

\* Timeseries::find_index_by_time
FindIndexByTime(data, criteria, time) ==
    IF criteria = "Earliest"
    THEN FindEarliest(data, time, 1)
    ELSE FindLatest(data, time, 1, Absent)

\* a search in the series
SeriesFind ==
    \E criteria \in {"Earliest", "Latest"}, time \in 0..(MaxTime + 1) :
        series' = [series EXCEPT !.criteria = criteria, !.time = time,
                                 !.index = FindIndexByTime(series.data, criteria,
                                                           time)]

\* the series whose timestamps strictly increase: one for every set of
\* timestamps
RECURSIVE Ascending(_, _)
Ascending(times, t) ==
    IF t > MaxTime
    THEN <<>>
    ELSE (IF t \in times THEN <<t>> ELSE <<>>) \o Ascending(times, t + 1)

(* ---------------------------------------------------------------------- *)
(* Instance identities and the inspector report                            *)
(* ---------------------------------------------------------------------- *)

\* Executor::new
ExecutorNew == [next_worker_id |-> 0, workers |-> <<>>]

NextNodeletId_MutReissues(setup) == [id |-> setup, setup |-> setup]

\* NodeletSetup::next_nodelet_id on the issue (worker_id, counter): the id
\* handed out and the setup afterwards
NextNodeletId(setup) ==
    [id |-> setup, setup |-> <<setup[1], setup[2] + 1>>]

\* setup of a sequence after the first instance got its id
SequenceSetupRest(first, rest) ==
    [ids |-> <<first.id>> \o rest.ids, setup |-> rest.setup]

RECURSIVE SequenceSetup(_, _)
\* setup of a sequence of n instances: each Vise::setup takes the next id
SequenceSetup(n, setup) ==
    IF n = 0
    THEN [ids |-> <<>>, setup |-> setup]
    ELSE CHOOSE r \in
             {SequenceSetupRest(first, SequenceSetup(n - 1, first.setup)) :
                 first \in {NextNodeletId(setup)}} : TRUE

\* setup of a schedule after its first sequence was set up
ScheduleSetupRest(first, rest) ==
    [ids |-> <<first.ids>> \o rest.ids, setup |-> rest.setup]

RECURSIVE ScheduleSetup(_, _)
\* ScheduleExecutor::setup: the one NodeletSetup is handed from sequence to
\* sequence; shape gives the number of instances of each sequence
ScheduleSetup(shape, setup) ==
    IF shape = <<>>
    THEN [ids |-> <<>>, setup |-> setup]
    ELSE CHOOSE r \in
             {ScheduleSetupRest(first, ScheduleSetup(Tail(shape), first.setup)) :
                 first \in {SequenceSetup(Head(shape), setup)}} : TRUE

\* the schedules that are pushed: one or two sequences of instances
ScheduleShapes ==
    [1..1 -> 1..MaxMembers] \cup [1..2 -> 1..MaxMembers]

\* Executor::push
ExecutorPush ==
    /\ Len(executor.workers) < MaxWorkers
    /\ \E shape \in ScheduleShapes :
          executor' =
              [next_worker_id |-> executor.next_worker_id + 1,
               workers |-> Append(executor.workers,
                                  ScheduleSetup(shape,
                                      <<executor.next_worker_id, 0>>).ids)]

\* InspectorReport::push: the entry replaces one with the same id
InspectorReportPush(report, id, entry) ==
    {e \in report : e.id # id} \cup {[id |-> id, entry |-> entry]}

RECURSIVE SequenceReport(_, _, _, _)
\* SequenceExec::report from instance k on: one push per instance of
\* sequence s of worker w
SequenceReport(report, w, s, k) ==
    IF k > Len(executor.workers[w][s])
    THEN report
    ELSE SequenceReport(InspectorReportPush(report, executor.workers[w][s][k],
                                            <<w, s, k>>),
                        w, s, k + 1)

RECURSIVE WorkerReport(_, _, _)
\* SequenceGroupExec::report from sequence s on, extended into the report
WorkerReport(report, w, s) ==
    IF s > Len(executor.workers[w])
    THEN report
    ELSE WorkerReport(SequenceReport(report, w, s, 1), w, s + 1)

RECURSIVE ExecutorReportFrom(_, _)
\* Executor::report from worker w on: result.extend(w.report())
ExecutorReportFrom(report, w) ==
    IF w > Len(executor.workers)
    THEN report
    ELSE ExecutorReportFrom(WorkerReport(report, w, 1), w + 1)

\* the instances scheduled on the workers, by position
Scheduled ==
    {p \in (1..MaxWorkers) \X (1..2) \X (1..MaxMembers) :
        /\ p[1] <= Len(executor.workers)
        /\ p[2] <= Len(executor.workers[p[1]])
        /\ p[3] <= Len(executor.workers[p[1]][p[2]])}

(* ---------------------------------------------------------------------- *)
(* Specifications                                                          *)
(* ---------------------------------------------------------------------- *)

SmIdle == rt = RtNew /\ cl = ClNew

ChIdle ==
    /\ txs = <<>>
    /\ rxs = <<>>
    /\ clog = CLogInit
    /\ locks = LocksNone

QIdle ==
    /\ back = <<>>
    /\ front = <<>>
    /\ overflow_policy = [kind |-> "Resize", n |-> 0]
    /\ retention_policy = "Drop"
    /\ qlog = QLogInit
    /\ capacity = [back |-> 0, front |-> 0]

SchedStart ==
    /\ sm_state = "Inactive"
    /\ next_transition = "Start"
    /\ num_steps = 0
    /\ mem = [i \in Inst |-> "Inactive"]
    /\ chan = ChanInit
    /\ pc = "loop"
    /\ rx_request = <<>>
    /\ rx_reply = <<>>
    /\ rx_control = 0
    /\ main = "idle"
    /\ statistics = <<>>
    /\ executor = ExecutorNew
    /\ series = SeriesNone
    /\ hist = HistInit

SchedIdle ==
    /\ sequences = <<>>
    /\ kinds = <<>>
    /\ max_step_count = Absent
    /\ SchedStart

\* a state machine of each kind driven by arbitrary requests
InitStateMachine == SmIdle /\ QIdle /\ SchedIdle /\ ChIdle

RtStep == \E t \in Transitions, inner \in InnerOutcomes :
              RtTransition(t, inner) /\ UNCHANGED <<cl, qVars, schedVars, chVars>>

ClStep == \E t \in Transitions, inner \in InnerOutcomes :
              ClTransition(t, inner) /\ UNCHANGED <<rt, qVars, schedVars, chVars>>

NextStateMachine == RtStep \/ ClStep

SpecStateMachine == InitStateMachine /\ [][NextStateMachine]_vars

\* one staged queue of every constructible policy pair
InitQueue ==
    /\ SmIdle
    /\ ChIdle
    /\ back = <<>>
    /\ front = <<>>
    /\ overflow_policy \in OverflowPolicies
    /\ retention_policy \in RetentionPolicies
    /\ BackStageNewOk(overflow_policy, retention_policy)
    /\ qlog = QLogInit
    /\ \E c \in 0..MaxCap :
          /\ overflow_policy.kind # "Resize" => c = overflow_policy.n
          /\ capacity = [back |-> BackStageNewCapacity(overflow_policy),
                         front |-> c]
    /\ SchedIdle

NextQueue ==
    \/ QPush /\ UNCHANGED <<smVars, schedVars, chVars>>
    \/ QSync /\ UNCHANGED <<smVars, schedVars, chVars>>
    \/ QPop /\ UNCHANGED <<smVars, schedVars, chVars>>

SpecQueue == InitQueue /\ [][NextQueue]_vars

\* a worker running a schedule of two sequences, <<1, 2>> and <<3>>, of
\* codelets whose hooks may succeed or fail, with or without a step cap
Init ==
    /\ SmIdle
    /\ ChIdle
    /\ QIdle
    /\ sequences = << <<1, 2>>, <<3>> >>
    /\ kinds = <<"generic", "generic", "generic">>
    /\ max_step_count \in {Absent} \cup 0..MaxStepCap
    /\ SchedStart

Next ==
    \/ WorkerLoop /\ UNCHANGED <<smVars, qVars, chVars>>
    \/ WorkerFinalize /\ UNCHANGED <<smVars, qVars, chVars>>
    \/ ExecutorRequestStop /\ UNCHANGED <<smVars, qVars, chVars>>

Spec == Init /\ [][Next]_vars

\* a worker running Alice and then Bob under a step cap, as one sequence or
\* as two; nothing requests a stop
InitAliceBob ==
    /\ SmIdle
    /\ ChIdle
    /\ QIdle
    /\ sequences \in { << <<1>>, <<2>> >>, << <<1, 2>> >> }
    /\ kinds = <<"alice", "bob">>
    /\ max_step_count \in 0..MaxMessages
    /\ SchedStart

NextAliceBob ==
    \/ WorkerLoop /\ UNCHANGED <<smVars, qVars, chVars>>
    \/ WorkerFinalize /\ UNCHANGED <<smVars, qVars, chVars>>

SpecAliceBob == InitAliceBob /\ [][NextAliceBob]_vars

\* the producers of a scenario: fixed capacity or auto size
TxKinds == {DoubleBufferTxNew(MaxOutbox), DoubleBufferTxNewAutoSize}

\* free slots in which consumer endpoints of every policy pair are
\* constructed
InitConstruct ==
    /\ SmIdle
    /\ QIdle
    /\ SchedIdle
    /\ txs = <<>>
    /\ rxs = [i \in 1..NumRx |-> RxNone]
    /\ clog = CLogInit
    /\ locks = LocksNone

NextConstruct == ChRxNew /\ UNCHANGED <<smVars, qVars, schedVars, locks>>

SpecConstruct == InitConstruct /\ [][NextConstruct]_vars

\* the consumer endpoints of alice_many_bobs_codelets and of the channel
\* constructors: Bob's Rx, new_latest and new_auto_size
BobKinds ==
    {DoubleBufferRxNew([kind |-> "Reject", n |-> 1], "Drop"),
     DoubleBufferRxNew([kind |-> "Forget", n |-> 1], "Keep"),
     DoubleBufferRxNew([kind |-> "Resize", n |-> 0], "Drop")}

\* producers and consumers of every kind, connected in any order
InitConnect ==
    /\ SmIdle
    /\ QIdle
    /\ SchedIdle
    /\ txs \in [1..NumTx -> TxKinds]
    /\ rxs \in [1..NumRx -> BobKinds]
    /\ clog = CLogInit
    /\ locks = LocksNone

NextConnect == ChConnect /\ UNCHANGED <<smVars, qVars, schedVars, locks>>

SpecConnect == InitConnect /\ [][NextConnect]_vars

\* one producer and more consumers of one kind than it can hold, connected
\* in order
InitManyBobs ==
    /\ SmIdle
    /\ QIdle
    /\ SchedIdle
    /\ txs \in [1..1 -> TxKinds]
    /\ \E bob \in BobKinds :
          rxs = [i \in 1..(MAX_RECEIVER_COUNT + ExtraBobs) |-> bob]
    /\ clog = CLogInit
    /\ locks = LocksNone

NextManyBobs == ChConnectInOrder /\ UNCHANGED <<smVars, qVars, schedVars, locks>>

SpecManyBobs == InitManyBobs /\ [][NextManyBobs]_vars

\* the consumer endpoints a flush is studied with
\* consumers are interchangeable: they are listed by policy, bounded ones by
\* capacity first
KindRank(op) ==
    IF op.kind = "Reject" THEN op.n
    ELSE IF op.kind = "Forget" THEN MaxChanCap + 1 + op.n
    ELSE 2 * MaxChanCap + 2

FlushRxKinds ==
    {DoubleBufferRxNew(op, "Drop") : op \in ChanPolicies}

\* one producer and constructed consumers: the consumers are connected, the
\* producer pushes values into its outbox and flushes
InitFlush ==
    /\ SmIdle
    /\ QIdle
    /\ SchedIdle
    /\ txs \in [1..1 -> TxKinds]
    /\ rxs \in [1..NumRx -> FlushRxKinds]
    /\ \A i \in 1..(NumRx - 1) : KindRank(rxs[i].op) <= KindRank(rxs[i + 1].op)
    /\ clog = CLogInit
    /\ locks = LocksNone

NextFlush ==
    \/ ChConnect /\ UNCHANGED <<smVars, qVars, schedVars, locks>>
    \/ ChPush /\ UNCHANGED <<smVars, qVars, schedVars, locks>>
    \/ ChFlush /\ UNCHANGED <<smVars, qVars, schedVars, locks>>

SpecFlush == InitFlush /\ [][NextFlush]_vars

\* a worker running Alice under a step cap while Bob, the consumer of its
\* channel, is on a worker that has not spun yet: nothing syncs Bob's endpoint
InitAliceAlone ==
    /\ SmIdle
    /\ ChIdle
    /\ QIdle
    /\ sequences = << <<1>> >>
    /\ kinds = <<"alice">>
    /\ max_step_count \in 0..MaxMessages
    /\ SchedStart

NextAliceAlone ==
    \/ WorkerLoop /\ UNCHANGED <<smVars, qVars, chVars>>
    \/ WorkerFinalize /\ UNCHANGED <<smVars, qVars, chVars>>
    \/ ExecutorRequestStop /\ UNCHANGED <<smVars, qVars, chVars>>

SpecAliceAlone == InitAliceAlone /\ [][NextAliceAlone]_vars

\* a worker running Alice and then a consumer with an EnforceEmpty endpoint
\* under a step cap, as one sequence or as two; the consumer's hooks may
\* consume what they received, leave it, or fail
InitEnforceEmpty ==
    /\ SmIdle
    /\ ChIdle
    /\ QIdle
    /\ sequences \in { << <<1>>, <<2>> >>, << <<1, 2>> >> }
    /\ kinds = <<"alice", "consumer">>
    /\ max_step_count \in 1..MaxStepCap
    /\ SchedStart

Released_MutKeeps(held, t, c) == held

\* the write guard of the back stage of consumer c, held by thread t, going
\* out of scope
Released(held, t, c) == held \ {<<t, c>>}

\* RwLock::write returning on thread t for the back stage of consumer c
Acquired(held, t, c) == held \cup {<<t, c>>}

\* the position of the connection the flush of producer p serves next
FlushPosition(p) ==
    IF clog.flushK = 0 THEN FlushFirstPosition(Len(txs[p].connections))
    ELSE clog.flushK

\* flush, rx.write() on the connection served next: the producer thread waits
\* while another thread holds the lock
LockFlushAcquire ==
    \E p \in DOMAIN txs :
        /\ ProducerThread \notin clog.panicked
        /\ FlushPosition(p) # 0
        /\ \E c \in {txs[p].connections[FlushPosition(p)]} :
             /\ c \notin clog.panicked
             /\ \A h \in locks.held : h[2] # c
             /\ locks' = [held |-> Acquired(locks.held, ProducerThread, c),
                          inside |-> locks.inside \cup {ProducerThread}]
        /\ clog' = [clog EXCEPT !.op = "lock"]
        /\ UNCHANGED <<txs, rxs>>

\* flush, the loop over the outbox under the lock taken, at whose end the
\* guard is dropped; without a connection no lock is taken, and a poisoned
\* lock makes write().unwrap() panic
LockFlushSection ==
    /\ ChFlushStep
    /\ \E p \in DOMAIN txs : \E k \in {FlushPosition(p)} :
          IF k = 0
          THEN /\ ProducerThread \notin locks.inside
               /\ UNCHANGED locks
          ELSE \E c \in {txs[p].connections[k]} :
                  IF <<ProducerThread, c>> \in locks.held
                  THEN locks' = [held |-> Released(locks.held, ProducerThread, c),
                                 inside |-> IF clog'.flushK = 0
                                            THEN locks.inside \ {ProducerThread}
                                            ELSE locks.inside]
                  ELSE /\ c \in clog.panicked
                       /\ \A h \in locks.held : h[2] # c
                       /\ locks' = [locks EXCEPT !.inside = @ \ {ProducerThread}]

\* sync, self.back.write(): the consumer thread waits while the producer
\* holds the lock of its back stage
LockSyncAcquire ==
    \E i \in DOMAIN rxs :
        /\ rxs[i].exists
        /\ i \notin clog.panicked
        /\ i \notin locks.inside
        /\ \A h \in locks.held : h[2] # i
        /\ locks' = [held |-> Acquired(locks.held, i, i),
                     inside |-> locks.inside \cup {i}]
        /\ clog' = [clog EXCEPT !.op = "lock"]
        /\ UNCHANGED <<txs, rxs>>

\* sync, BackStage::sync under the lock taken; the guard is dropped when the
\* statement ends or the panic unwinds
LockSyncSection ==
    /\ ChSync
    /\ \E i \in DOMAIN rxs :
          /\ clog'.rx = i
          /\ <<i, i>> \in locks.held
          /\ locks' = [held |-> Released(locks.held, i, i),
                       inside |-> locks.inside \ {i}]

\* connect, between two calls of flush: rx.back.read() waits while a thread
\* holds the write lock, and its guard is dropped within the statement
LockSetup ==
    /\ ChSetup
    /\ ProducerThread \notin locks.inside
    /\ \A h \in locks.held : h[2] # clog'.rx
    /\ UNCHANGED locks

\* codelet code of a consumer, between two calls of sync: pop and clear
LockReceive ==
    /\ ChPop \/ ChClear
    /\ clog'.rx \notin locks.inside
    /\ UNCHANGED locks

\* codelet code of the producer, between two calls of flush: push
LockSend ==
    /\ ChSend
    /\ ProducerThread \notin locks.inside
    /\ UNCHANGED locks

\* Pop for DoubleBufferRx::is_empty
RxIsEmpty(rx) == rx.front = <<>>

\* Pop::is_empty of a pair and of a triple of receivers, as written
PairIsEmpty(members) == RxIsEmpty(members[1]) \/ RxIsEmpty(members[2])
TripleIsEmpty(members) == RxIsEmpty(members[1]) \/ RxIsEmpty(members[2])

RECURSIVE UnwrapPops(_, _, _)
\* (self.0.pop().unwrap(), self.1.pop().unwrap(), ..): the members are popped
\* from left to right, and the unwrap of an empty member panics after the
\* members before it were popped
UnwrapPops(members, k, values) ==
    IF k > Len(members)
    THEN [members |-> members, values |-> values, res |-> "Ok"]
    ELSE IF RxIsEmpty(members[k])
    THEN [members |-> members, values |-> values, res |-> "Panic"]
    ELSE UnwrapPops([members EXCEPT ![k].front = PopFront(@)], k + 1,
                    Append(values, Head(members[k].front)))

\* Pop::pop of a pair (two members) or a triple (three members) of receivers
TuplePop(members) ==
    IF (IF Len(members) = 2 THEN PairIsEmpty(members) ELSE TripleIsEmpty(members))
    THEN [members |-> members, values |-> <<>>, res |-> "QueueEmpty"]
    ELSE UnwrapPops(members, 1, <<>>)

\* (&mut rx1, &mut rx2).pop() and (&mut rx1, &mut rx2, &mut rx3).pop() on the
\* first two or three consumers; a panic ends the thread
ChPopTuple ==
    \E n \in {2, 3} :
        /\ n <= Len(rxs)
        /\ clog.res # "Panic"
        /\ \E r \in {TuplePop(SubSeq(rxs, 1, n))} :
             /\ rxs' = [i \in DOMAIN rxs |->
                           IF i <= n THEN r.members[i] ELSE rxs[i]]
             /\ clog' = [CLogFresh EXCEPT
                            !.op = IF n = 2 THEN "pop2" ELSE "pop3",
                            !.res = r.res,
                            !.preFronts = [i \in 1..n |-> rxs[i].front],
                            !.popped = r.values]
        /\ UNCHANGED txs

NextEnforceEmpty ==
    \/ WorkerLoop /\ UNCHANGED <<smVars, qVars, chVars>>
    \/ WorkerFinalize /\ UNCHANGED <<smVars, qVars, chVars>>
    \/ ExecutorRequestStop /\ UNCHANGED <<smVars, qVars, chVars>>

SpecEnforceEmpty == InitEnforceEmpty /\ [][NextEnforceEmpty]_vars

\* every consumer endpoint that can be constructed
AllRxKinds ==
    {DoubleBufferRxNew(c.op, c.rp) :
        c \in {c \in [op : ChanPolicies, rp : RetentionPolicies] :
                  BackStageNewOk(c.op, c.rp)}}

\* a producer on one thread and two consumers of one kind on threads of their
\* own: the consumers are connected, then the producer pushes and flushes
\* while every consumer syncs, pops and clears
InitThreads ==
    /\ SmIdle
    /\ QIdle
    /\ SchedIdle
    /\ txs \in [1..1 -> TxKinds]
    /\ \E kind \in AllRxKinds : rxs = [i \in 1..2 |-> kind]
    /\ clog = CLogInit
    /\ locks = LocksNone

NextThreads ==
    \/ ChSetup /\ UNCHANGED <<smVars, qVars, schedVars, locks>>
    \/ ChSend /\ UNCHANGED <<smVars, qVars, schedVars, locks>>
    \/ ChFlushStep /\ UNCHANGED <<smVars, qVars, schedVars, locks>>
    \/ ChSync /\ UNCHANGED <<smVars, qVars, schedVars, locks>>
    \/ ChPop /\ UNCHANGED <<smVars, qVars, schedVars, locks>>
    \/ ChClear /\ UNCHANGED <<smVars, qVars, schedVars, locks>>

SpecThreads == InitThreads /\ [][NextThreads]_vars

\* a producer of fixed capacity on one thread and two consumers of one kind
\* on threads of their own: one kind that rejects, one whose sync can panic,
\* one that keeps and resizes
InitLocks ==
    /\ SmIdle
    /\ QIdle
    /\ SchedIdle
    /\ txs = <<DoubleBufferTxNew(MaxOutbox)>>
    /\ \E kind \in {DoubleBufferRxNew([kind |-> "Reject", n |-> MaxChanCap], "Drop"),
                     DoubleBufferRxNew([kind |-> "Forget", n |-> MaxChanCap],
                                       "EnforceEmpty"),
                     DoubleBufferRxNew([kind |-> "Resize", n |-> 0], "Keep")} :
          rxs = [i \in 1..2 |-> kind]
    /\ clog = CLogInit
    /\ locks = LocksNone

\* the threads of SpecThreads with the write locks of the back stages: a
\* thread takes a lock, works under it and drops it in steps of their own
NextLocks ==
    \/ LockSetup /\ UNCHANGED <<smVars, qVars, schedVars>>
    \/ LockSend /\ UNCHANGED <<smVars, qVars, schedVars>>
    \/ LockFlushAcquire /\ UNCHANGED <<smVars, qVars, schedVars>>
    \/ LockFlushSection /\ UNCHANGED <<smVars, qVars, schedVars>>
    \/ LockSyncAcquire /\ UNCHANGED <<smVars, qVars, schedVars>>
    \/ LockSyncSection /\ UNCHANGED <<smVars, qVars, schedVars>>
    \/ LockReceive /\ UNCHANGED <<smVars, qVars, schedVars>>

SpecLocks == InitLocks /\ [][NextLocks]_vars

\* three consumers whose fronts hold up to MaxCap values each, popped
\* together as a pair and as a triple
InitPop ==
    /\ SmIdle
    /\ QIdle
    /\ SchedIdle
    /\ txs = <<>>
    /\ \E len \in [1..3 -> 0..MaxCap] :
          rxs = [i \in 1..3 |->
                    [DoubleBufferRxNew([kind |-> "Resize", n |-> 0], "Keep")
                        EXCEPT !.front = [j \in 1..len[i] |-> 10 * i + j]]]
    /\ clog = CLogInit
    /\ locks = LocksNone

NextPop == ChPopTuple /\ UNCHANGED <<smVars, qVars, schedVars, locks>>

SpecPop == InitPop /\ [][NextPop]_vars

\* the worker of Spec on a thread that the operating system keeps running:
\* a pass of the worker loop or the finalize that can be taken is eventually
\* taken
WorkerRuns ==
    \/ WorkerLoop /\ UNCHANGED <<smVars, qVars, chVars>>
    \/ WorkerFinalize /\ UNCHANGED <<smVars, qVars, chVars>>

SpecFair == Init /\ [][Next]_vars /\ WF_vars(WorkerRuns)

\* the worker of Spec while the owner of the executor asks for reports
NextReport ==
    \/ Next
    \/ ExecutorReport /\ UNCHANGED <<smVars, qVars, chVars>>
    \/ WorkerReportRecv /\ UNCHANGED <<smVars, qVars, chVars>>

SpecReport == Init /\ [][NextReport]_vars

\* alice_bob_codelets_with_terminator: one schedule without a step cap runs
\* the Terminator, Alice and Bob in this order on a worker, while the runtime
\* thread waits for RequestStop in Runtime::spin
InitTerminator ==
    /\ SmIdle
    /\ ChIdle
    /\ QIdle
    /\ sequences \in { << <<1, 2, 3>> >>, << <<1>>, <<2, 3>> >>,
                        << <<1, 2>>, <<3>> >>, << <<1>>, <<2>>, <<3>> >> }
    /\ kinds = <<"terminator", "alice", "bob">>
    /\ max_step_count = Absent
    /\ sm_state = "Inactive"
    /\ next_transition = "Start"
    /\ num_steps = 0
    /\ mem = [i \in Inst |-> "Inactive"]
    /\ \E n \in 1..MaxSteps :
          chan = [ChanInit EXCEPT !.countdown = n - 1, !.num_messages = n]
    /\ pc = "loop"
    /\ rx_request = <<>>
    /\ rx_reply = <<>>
    /\ rx_control = 0
    /\ main = "idle"
    /\ statistics = <<>>
    /\ executor = ExecutorNew
    /\ series = SeriesNone
    /\ hist = HistInit

NextTerminator ==
    \/ WorkerLoop /\ UNCHANGED <<smVars, qVars, chVars>>
    \/ WorkerFinalize /\ UNCHANGED <<smVars, qVars, chVars>>
    \/ RuntimeSpin /\ UNCHANGED <<smVars, qVars, chVars>>
    \/ RuntimeRequestStop /\ UNCHANGED <<smVars, qVars, chVars>>
    \/ RuntimeJoin /\ UNCHANGED <<smVars, qVars, chVars>>
    \/ RuntimeFinish /\ UNCHANGED <<smVars, qVars, chVars>>

SpecTerminator == InitTerminator /\ [][NextTerminator]_vars

\* the runtime thread inside Runtime::spin
RuntimeRuns ==
    \/ RuntimeSpin /\ UNCHANGED <<smVars, qVars, chVars>>
    \/ RuntimeRequestStop /\ UNCHANGED <<smVars, qVars, chVars>>
    \/ RuntimeJoin /\ UNCHANGED <<smVars, qVars, chVars>>
    \/ RuntimeFinish /\ UNCHANGED <<smVars, qVars, chVars>>

\* a worker running a Terminator alone, and the runtime thread in
\* Runtime::spin; both threads are scheduled fairly
InitStopper ==
    /\ SmIdle
    /\ ChIdle
    /\ QIdle
    /\ sequences = << <<1>> >>
    /\ kinds = <<"terminator">>
    /\ max_step_count = Absent
    /\ sm_state = "Inactive"
    /\ next_transition = "Start"
    /\ num_steps = 0
    /\ mem = [i \in Inst |-> "Inactive"]
    /\ \E n \in 1..MaxSteps :
          chan = [ChanInit EXCEPT !.countdown = n - 1, !.num_messages = n]
    /\ pc = "loop"
    /\ rx_request = <<>>
    /\ rx_reply = <<>>
    /\ rx_control = 0
    /\ main = "idle"
    /\ statistics = <<>>
    /\ executor = ExecutorNew
    /\ series = SeriesNone
    /\ hist = HistInit

SpecStopper ==
    /\ InitStopper
    /\ [][NextTerminator]_vars
    /\ WF_vars(WorkerRuns)
    /\ WF_vars(RuntimeRuns)

\* a worker running one sequence of two codelets whose hooks may succeed, be
\* skipped or fail, with the statistics of both observed
InitStatistics ==
    /\ SmIdle
    /\ ChIdle
    /\ QIdle
    /\ sequences = << <<1, 2>> >>
    /\ kinds = <<"generic", "generic">>
    /\ max_step_count \in {Absent} \cup 0..MaxStepCap
    /\ sm_state = "Inactive"
    /\ next_transition = "Start"
    /\ num_steps = 0
    /\ mem = [i \in Inst |-> "Inactive"]
    /\ chan = ChanInit
    /\ pc = "loop"
    /\ rx_request = <<>>
    /\ rx_reply = <<>>
    /\ rx_control = 0
    /\ main = "idle"
    /\ statistics = [i \in Inst |-> StatisticsNew]
    /\ executor = ExecutorNew
    /\ series = SeriesNone
    /\ hist = [HistInit EXCEPT
                 !.cycles = [i \in Inst |-> [t \in Transitions |-> CyclesNone]]]

SpecStatistics == InitStatistics /\ [][Next]_vars

\* an executor to which schedules are pushed
NextPush == ExecutorPush /\ UNCHANGED <<smVars, qVars, chVars, sequences, kinds,
                                       max_step_count, sm_state, next_transition,
                                       num_steps, mem, chan, pc, rx_request,
                                       rx_reply, rx_control, main, statistics,
                                       series, hist>>

SpecPush == InitStateMachine /\ [][NextPush]_vars

\* a time series with strictly increasing timestamps in which searches are
\* made
InitSeries ==
    /\ SmIdle
    /\ ChIdle
    /\ QIdle
    /\ sequences = <<>>
    /\ kinds = <<>>
    /\ max_step_count = Absent
    /\ sm_state = "Inactive"
    /\ next_transition = "Start"
    /\ num_steps = 0
    /\ mem = [i \in Inst |-> "Inactive"]
    /\ chan = ChanInit
    /\ pc = "loop"
    /\ rx_request = <<>>
    /\ rx_reply = <<>>
    /\ rx_control = 0
    /\ main = "idle"
    /\ statistics = <<>>
    /\ executor = ExecutorNew
    /\ \E times \in SUBSET (1..MaxTime) :
          series = [SeriesNone EXCEPT !.data = Ascending(times, 1)]
    /\ hist = HistInit

NextSeries == SeriesFind /\ UNCHANGED <<smVars, qVars, chVars, sequences, kinds,
                                        max_step_count, sm_state, next_transition,
                                        num_steps, mem, chan, pc, rx_request,
                                        rx_reply, rx_control, main, statistics,
                                        executor, hist>>

SpecSeries == InitSeries /\ [][NextSeries]_vars

\* a worker running a schedule of sequences of zero to three codelets whose
\* hooks may succeed, be skipped or fail, with what each sequence did
\* observed
InitSequences ==
    /\ SmIdle
    /\ ChIdle
    /\ QIdle
    /\ sequences \in { << <<1, 2, 3>> >>, << <<1, 2>>, <<3>> >>,
                        << <<>>, <<1, 2, 3>> >>, << <<1>>, <<2>>, <<3>> >> }
    /\ kinds = <<"generic", "generic", "generic">>
    /\ max_step_count \in {Absent} \cup 1..MaxStepCap
    /\ sm_state = "Inactive"
    /\ next_transition = "Start"
    /\ num_steps = 0
    /\ mem = [i \in Inst |-> "Inactive"]
    /\ chan = ChanInit
    /\ pc = "loop"
    /\ rx_request = <<>>
    /\ rx_reply = <<>>
    /\ rx_control = 0
    /\ main = "idle"
    /\ statistics = <<>>
    /\ executor = ExecutorNew
    /\ series = SeriesNone
    /\ hist = [HistInit EXCEPT !.observed = TRUE]

SpecSequences == InitSequences /\ [][Next]_vars

(* ---------------------------------------------------------------------- *)
(* Properties                                                              *)
(* ---------------------------------------------------------------------- *)

\* C1: a request outside the six legal (state, transition) pairs returns
\* InvalidTransition, does not invoke the inner cycle and leaves the state
\* unchanged; a legal request whose inner cycle succeeds moves to the
\* destination of the transition table.
C1_LegalTransitionsOnly ==
    LET dest == [p \in {<<"Inactive", "Start">>, <<"Started", "Step">>,
                        <<"Started", "Pause">>, <<"Started", "Stop">>,
                        <<"Paused", "Resume">>, <<"Paused", "Stop">>} |->
                     CASE p[2] \in {"Start", "Step", "Resume"} -> "Started"
                       [] p[2] = "Pause" -> "Paused"
                       [] OTHER -> "Inactive"]
    IN rt.req # None =>
         IF <<rt.prev, rt.req>> \notin DOMAIN dest
         THEN /\ rt.result = "InvalidTransition"
              /\ ~rt.innerCalled
              /\ rt.state = rt.prev
         ELSE /\ rt.innerCalled
              /\ rt.inner \in OutcomeKinds => rt.state = dest[<<rt.prev, rt.req>>]

\* C1 witness: a transition requested in state Error was refused
C1_Witness ==
    /\ rt.prev = "Error"
    /\ rt.req = "Stop"
    /\ rt.result = "InvalidTransition"
    /\ rt.state = "Error"

\* C2: whenever the inner cycle fails during a legal transition, the state
\* machine's state becomes Error and the call returns ExecutionFailure; this
\* is stated of both state machines of the repository.
C2_FailureEntersError ==
    /\ (rt.innerCalled /\ rt.inner = "Err") =>
           rt.state = "Error" /\ rt.result = "ExecutionFailure"
    /\ (cl.innerCalled /\ cl.inner = "Err") =>
           cl.state = "Error" /\ cl.result = "ExecutionFailure"

\* C3: when the worker thread has exited, every instance whose start hook was
\* invoked has had its stop hook invoked exactly once.
C3_StopAfterStart ==
    pc = "exited" => \A i \in Inst : hist.started[i] => hist.stops[i] = 1

\* C4: the schedule starts with next transition Start; a spin executes the
\* next transition (Stop when the step cap overrides it) and then sets it to
\* Step after a successful Start, Step or Resume, to none after a successful
\* Pause or Stop, to Stop after a failure, and to none after a failed Stop; a
\* failing Step is followed by Stop, after which the schedule is terminated.
C4_NextTransition ==
    /\ hist.op = None => next_transition = "Start" /\ ~IsTerminated
    /\ hist.op = "spin" =>
         /\ hist.executed # None
         /\ (max_step_count = Absent \/ hist.stepsAtEntry < max_step_count)
                => hist.executed = hist.prevNext
         /\ (hist.ok /\ hist.executed \in {"Start", "Step", "Resume"})
                => next_transition = "Step" /\ ~IsTerminated
         /\ (hist.ok /\ hist.executed \in {"Pause", "Stop"})
                => next_transition = None /\ IsTerminated
         /\ (~hist.ok /\ hist.executed # "Stop")
                => next_transition = "Stop" /\ ~IsTerminated
         /\ (~hist.ok /\ hist.executed = "Stop")
                => next_transition = None /\ IsTerminated
         /\ (hist.prevExecuted = "Step" /\ ~hist.prevOk)
                => hist.executed = "Stop" /\ IsTerminated

\* C4 witness: a Step failed, the next spin executed Stop, and the schedule is
\* terminated
C4_Witness ==
    /\ hist.op = "spin"
    /\ hist.prevExecuted = "Step"
    /\ ~hist.prevOk
    /\ hist.executed = "Stop"
    /\ next_transition = None

\* C5: with max-step cap N the schedule executes at most N Step transitions,
\* no instance's step hook runs more than N times, and a spin that finds N
\* steps counted executes Stop.
C5_MaxStepCap ==
    max_step_count # Absent =>
        /\ hist.stepsExecuted <= max_step_count
        /\ \A i \in Inst : hist.steps[i] <= max_step_count
        /\ (hist.op = "spin" /\ hist.prevNext # None
                /\ hist.stepsAtEntry >= max_step_count)
               => hist.executed = "Stop"

\* C5 witness: the cap of 2 was reached after two steps and Stop was executed
C5_Witness ==
    /\ max_step_count = 2
    /\ hist.stepsExecuted = 2
    /\ hist.op = "spin"
    /\ hist.prevNext = "Step"
    /\ hist.executed = "Stop"
    /\ \E i \in Inst : hist.steps[i] = 2

\* C6: Alice before Bob over a capacity-1 channel under step cap N: Bob's k-th
\* step pops the message of Alice's k-th step within the same spin, no push,
\* flush or pop fails, and the stop hooks see num_sent = num_recv = N.
C6_AliceBob ==
    /\ pc # "panicked"
    /\ chan.refused = 0
    /\ chan.recv = chan.sent
    /\ \A k \in 1..Len(chan.sent) : chan.sent[k] = k - 1
    /\ chan.num_sent = Len(chan.sent) /\ chan.num_recv = Len(chan.recv)
    /\ \A i \in Inst : hist.steps[i] <= max_step_count
    /\ chan.sentAtStop \in {Absent, max_step_count}
    /\ chan.recvAtStop \in {Absent, max_step_count}
    /\ (\E i \in Inst : hist.stops[i] > 0) =>
           \A i \in Inst : hist.steps[i] = max_step_count
    /\ (pc = "exited" /\ max_step_count > 0) =>
           /\ chan.sentAtStop = max_step_count
           /\ chan.recvAtStop = max_step_count

\* C6 witness: a run with cap 3 ended with both stop hooks seeing three steps
C6_Witness ==
    /\ pc = "exited"
    /\ max_step_count = 3
    /\ chan.recv = <<0, 1, 2>>
    /\ chan.sentAtStop = 3
    /\ chan.recvAtStop = 3

\* C7: under Reject(cap) a push on a full back returns Rejected and leaves the
\* back unchanged, a push on a back below cap appends and returns Ok, the back
\* never exceeds cap, and a sync under Drop hands over the first cap items
\* offered since the previous sync.
C7_RejectCap ==
    overflow_policy.kind = "Reject" =>
        /\ Len(back) <= overflow_policy.n
        /\ qlog.op = "push" =>
             IF Len(qlog.preBack) = overflow_policy.n
             THEN qlog.res = "Rejected" /\ back = qlog.preBack
             ELSE /\ Len(qlog.preBack) < overflow_policy.n
                  /\ qlog.res = "Ok"
                  /\ back = Append(qlog.preBack, qlog.offered[Len(qlog.offered)])
        /\ (qlog.op = "sync" /\ retention_policy = "Drop") =>
             /\ front = SubSeq(qlog.preOffered, 1,
                               Min(overflow_policy.n, Len(qlog.preOffered)))
             /\ back = <<>>

\* C7 witness: three pushes on Reject(2), then a sync under Drop handed over
\* the first two
C7_Witness ==
    /\ overflow_policy = [kind |-> "Reject", n |-> 2]
    /\ retention_policy = "Drop"
    /\ qlog.op = "sync"
    /\ Len(qlog.preOffered) = 3
    /\ front = SubSeq(qlog.preOffered, 1, 2)

\* C8: under Forget(cap), for every cap >= 0, every push returns Ok, the back
\* never exceeds cap, and the back holds the most recent min(k, cap) of the k
\* items pushed since the last sync.
C8_ForgetCap ==
    overflow_policy.kind = "Forget" =>
        /\ qlog.op = "push" => qlog.res = "Ok"
        /\ Len(back) <= overflow_policy.n
        /\ LET k == Len(qlog.offered)
               m == Min(k, overflow_policy.n)
           IN back = SubSeq(qlog.offered, k - m + 1, k)

\* C9: a sync under EnforceEmpty reports a violation iff the front was
\* non-empty, and afterwards, violation or not, the front holds the pre-sync
\* back and the back is empty.
C9_EnforceEmpty ==
    (qlog.op = "sync" /\ retention_policy = "EnforceEmpty") =>
        /\ qlog.res = "NotEmpty" <=> qlog.preFront # <<>>
        /\ front = qlog.preBack
        /\ back = <<>>

C11_ResizeKeepAppends ==
    (/\ qlog.op = "sync"
     /\ overflow_policy.kind = "Resize"
     /\ retention_policy = "Keep") =>
        /\ qlog.res = "Ok"
        /\ front = qlog.preFront \o qlog.preBack
        /\ back = <<>>

C14_ResizeCapacity ==
    (overflow_policy.kind = "Resize" /\ qlog.op # None) =>
        /\ qlog.op = "push" => qlog.res = "Ok"
        /\ capacity.back >= qlog.preCapacity
        /\ capacity.back # qlog.preCapacity =>
             /\ qlog.op = "push"
             /\ Len(qlog.preBack) = qlog.preCapacity
             /\ capacity.back =
                  StrictlyIncreasingLinearEval(overflow_policy.sil, qlog.preCapacity)

\* C13: constructing a consumer endpoint with overflow Reject(n) and
\* retention Keep is refused for every n and no such endpoint ever exists;
\* every other pair of policies constructs the endpoint.
C13_RejectKeepRefused ==
    /\ \A i \in DOMAIN rxs :
          rxs[i].exists => ~(rxs[i].op.kind = "Reject" /\ rxs[i].rp = "Keep")
    /\ clog.op = "new" =>
          IF clog.attempted.op.kind = "Reject" /\ clog.attempted.rp = "Keep"
          THEN clog.res = "Panic" /\ ~rxs[clog.rx].exists
          ELSE /\ clog.res = "Ok"
               /\ rxs[clog.rx] = DoubleBufferRxNew(clog.attempted.op,
                                                   clog.attempted.rp)

\* C13 witness: the construction of a Reject(1)+Keep endpoint was refused
\* while another endpoint exists
C13_Witness ==
    /\ clog.op = "new"
    /\ clog.attempted = [op |-> [kind |-> "Reject", n |-> 1], rp |-> "Keep"]
    /\ clog.res = "Panic"
    /\ \E i \in DOMAIN rxs : rxs[i].exists /\ rxs[i].rp = "Keep"

\* the places (producer, position) whose connection is consumer i's back stage
ConnectionsTo(i) ==
    {pk \in UNION {{<<p, k>> : k \in DOMAIN txs[p].connections} : p \in DOMAIN txs} :
        txs[pk[1]].connections[pk[2]] = i}

\* C15: after any connect calls every consumer's back stage is in at most one
\* connection list and at most once in it; a connect of a connected consumer
\* returns ReceiverAlreadyConnected; a consumer is_connected iff some
\* producer holds its back stage.
C15_OneProducerPerConsumer ==
    /\ \A i \in DOMAIN rxs :
          /\ Cardinality(ConnectionsTo(i)) <= 1
          /\ rxs[i].is_connected <=> ConnectionsTo(i) # {}
    /\ (clog.op = "connect" /\ clog.preConnected) =>
          /\ clog.res = "ReceiverAlreadyConnected"
          /\ Len(txs[clog.tx].connections) = clog.preLen

\* C15 witness: a consumer held by producer 1 was refused by producer 2
C15_Witness ==
    /\ clog.op = "connect"
    /\ clog.tx = 2
    /\ clog.res = "ReceiverAlreadyConnected"
    /\ \E k \in DOMAIN txs[1].connections : txs[1].connections[k] = clog.rx

\* C16: a connection list never holds more than 64 consumers: a connect of an
\* unconnected, policy-compatible consumer succeeds while the list holds
\* fewer than 64, and from then on returns MaxConnectionCountExceeded and
\* leaves the list and the consumer's connected status unchanged.
C16_MaxConnections ==
    /\ \A p \in DOMAIN txs : Len(txs[p].connections) <= MAX_RECEIVER_COUNT
    /\ (/\ clog.op = "connect"
        /\ ~clog.preConnected
        /\ ~(txs[clog.tx].op.kind = "Resize" /\ rxs[clog.rx].op.kind = "Reject")) =>
          IF clog.preLen < MAX_RECEIVER_COUNT
          THEN /\ clog.res = "Ok"
               /\ txs[clog.tx].connections =
                     [k \in 1..(clog.preLen + 1) |-> k]
               /\ rxs[clog.rx].is_connected
          ELSE /\ clog.res = "MaxConnectionCountExceeded"
               /\ Len(txs[clog.tx].connections) = clog.preLen
               /\ ~rxs[clog.rx].is_connected

\* C16 witness: the connect of the 66th consumer was refused by a producer
\* holding 64
C16_Witness ==
    /\ clog.op = "connect"
    /\ clog.rx = MAX_RECEIVER_COUNT + 2
    /\ clog.res = "MaxConnectionCountExceeded"
    /\ Len(txs[1].connections) = MAX_RECEIVER_COUNT

\* C17: for an unconnected consumer and a producer below its limit, connect
\* returns PolicyMismatch iff the outbox policy is Resize and the consumer's
\* overflow policy is Reject; every other pair connects, and after
\* PolicyMismatch the consumer is unconnected and the list unchanged.
C17_PolicyMismatch ==
    (/\ clog.op = "connect"
     /\ ~clog.preConnected
     /\ clog.preLen < MAX_RECEIVER_COUNT) =>
        IF txs[clog.tx].op.kind = "Resize" /\ rxs[clog.rx].op.kind = "Reject"
        THEN /\ clog.res = "PolicyMismatch"
             /\ ~rxs[clog.rx].is_connected
             /\ Len(txs[clog.tx].connections) = clog.preLen
        ELSE /\ clog.res = "Ok"
             /\ rxs[clog.rx].is_connected
             /\ txs[clog.tx].connections[clog.preLen + 1] = clog.rx
             /\ Len(txs[clog.tx].connections) = clog.preLen + 1

\* C17 witness: an auto-size producer refused a Reject consumer after it
\* connected a Forget consumer
C17_Witness ==
    /\ clog.op = "connect"
    /\ clog.res = "PolicyMismatch"
    /\ txs[clog.tx].op.kind = "Resize"
    /\ rxs[clog.rx].op.kind = "Reject"
    /\ \E k \in DOMAIN txs[clog.tx].connections :
          rxs[txs[clog.tx].connections[k]].op.kind = "Forget"

\* the last n items of a sequence
LastN(items, n) ==
    IF Len(items) <= n THEN items ELSE SubSeq(items, Len(items) - n + 1, Len(items))

\* what a back stage holding b gains from the values v under its own policy
GainedUnderPolicy(op, b, v) ==
    CASE op.kind = "Reject" -> b \o SubSeq(v, 1, Min(Len(v), Max(0, op.n - Len(b))))
      [] op.kind = "Forget" -> LastN(b \o v, op.n)
      [] OTHER -> b \o v

\* C18: after a flush with n >= 1 connected consumers each consumer's back
\* stage has gained the values of the outbox in order, limited only by its
\* own overflow policy (Reject: the prefix that fits; Forget: the most recent
\* cap; Resize: all), whatever happened at the other consumers.
C18_FanOut ==
    clog.op = "flush" =>
        \A k \in DOMAIN txs[clog.tx].connections :
            LET i == txs[clog.tx].connections[k] IN
            rxs[i].back = GainedUnderPolicy(rxs[i].op, clog.preBacks[i],
                                            clog.preOutbox)

\* the number of the values v a back stage holding b accepts
AcceptedCount(op, b, v) ==
    IF op.kind = "Reject" THEN Min(Len(v), Max(0, op.n - Len(b))) ELSE Len(v)

RECURSIVE AcceptedFrom(_, _)
\* the number of items accepted by the connections k.. of the flushed producer
AcceptedFrom(conns, k) ==
    IF k > Len(conns)
    THEN 0
    ELSE AcceptedCount(rxs[conns[k]].op, clog.preBacks[conns[k]], clog.preOutbox)
            + AcceptedFrom(conns, k + 1)

\* C19: flush returns available = |outbox| at its start, published = the
\* number of items accepted over all connections and cloned = the number
\* accepted by the connections other than the first; with n consumers that
\* accept everything published = n * available and cloned = (n - 1) * available.
C19_FlushCounters ==
    clog.op = "flush" =>
        LET conns == txs[clog.tx].connections
            n == Len(conns)
        IN /\ clog.result.available = Len(clog.preOutbox)
           /\ clog.result.published = AcceptedFrom(conns, 1)
           /\ clog.result.cloned = AcceptedFrom(conns, 2)
           /\ (n >= 1 /\ \A k \in 1..n :
                   rxs[conns[k]].back = clog.preBacks[conns[k]] \o clog.preOutbox) =>
                 /\ clog.result.published = n * clog.result.available
                 /\ clog.result.cloned = (n - 1) * clog.result.available

\* C19 witness: two values flushed to two consumers that accepted both
C19_Witness ==
    /\ clog.op = "flush"
    /\ Len(txs[clog.tx].connections) = 2
    /\ clog.result = [available |-> 2, cloned |-> 2, published |-> 4, marks |-> {}]
    /\ \A i \in DOMAIN rxs : Len(rxs[i].back) >= 2

\* C20: after a flush, error_indicator.get(i) is true iff a push into
\* consumer i was rejected during the flush, is_err() iff some consumer
\* rejected a push, and a consumer that rejected a push gained only the
\* values before the rejected one.
C20_ErrorIndicator ==
    clog.op = "flush" =>
        /\ \A i \in 0..(MAX_RECEIVER_COUNT - 1) :
              FlushErrorIndicatorGet(clog.result.marks, i) <=> i \in clog.refused
        /\ FlushErrorIndicatorIsErr(clog.result.marks) <=> clog.refused # {}
        /\ \A k \in DOMAIN txs[clog.tx].connections :
              (k - 1) \in clog.refused =>
                 LET i == txs[clog.tx].connections[k] IN
                 \E m \in 0..(Len(clog.preOutbox) - 1) :
                    rxs[i].back = clog.preBacks[i] \o SubSeq(clog.preOutbox, 1, m)

\* C21: when the flush after a hook of Alice has a message rejected by the
\* consumer's back stage, Alice's transition fails: its state machine and the
\* schedule's are in Error and the schedule goes on to Stop, never to Step.
C21_FlushErrorFails ==
    chan.refused > 0 =>
        /\ mem[1] = "Error"
        /\ sm_state = "Error"
        /\ next_transition # "Step"

\* C22 as stated: a transition of the consumer that finds items left in the
\* front of its EnforceEmpty endpoint fails before the hook and before the
\* flush, the consumer enters Error and the schedule's next transition is
\* Stop; a violation is reported only when items were left.
C22_EnforceEmptyStops ==
    /\ (hist.op = "spin" /\ hist.rxlog.leftover) =>
          /\ hist.rxlog.res = "Err"
          /\ ~hist.rxlog.hook
          /\ ~hist.rxlog.flush
          /\ mem[2] = "Error"
          /\ next_transition = "Stop"
    /\ hist.rxlog.violation => hist.rxlog.leftover

\* C22 amended: as above for a failing Start or Step; when the failing
\* transition is the Stop of a spin, the schedule has no next transition, and
\* the Stop of finalize fails in the same way, before the hook and the flush.
C22_EnforceEmptyFails ==
    /\ hist.rxlog.leftover =>
          /\ hist.rxlog.res = "Err"
          /\ hist.rxlog.violation
          /\ ~hist.rxlog.hook
          /\ ~hist.rxlog.flush
          /\ mem[2] = "Error"
          /\ hist.op = "spin" =>
                next_transition = IF hist.executed = "Stop" THEN None ELSE "Stop"
    /\ hist.rxlog.violation => hist.rxlog.leftover

\* C22 witness: the consumer skipped a step and left the message, and its
\* next step failed at the sync, so that the schedule goes on to Stop
C22_Witness ==
    /\ hist.op = "spin"
    /\ hist.executed = "Step"
    /\ hist.rxlog.t = "Step"
    /\ hist.rxlog.leftover
    /\ hist.rxlog.res = "Err"
    /\ hist.steps[2] = 1
    /\ next_transition = "Stop"

\* C23: every value a consumer pops was pushed by the producer and is newer
\* than every value this consumer popped before: what a consumer pops is a
\* subsequence of what the producer pushed, without reordering or duplicates,
\* under every policy pair and interleaving.
C23_OrderPreserved ==
    (clog.op = "pop" /\ clog.res = "Ok") =>
        /\ clog.value \in clog.accepted
        /\ clog.value > clog.prevLast
        /\ LastPopped(clog.rx) = clog.value

\* C23 witness: the second consumer, of a kind that keeps what it has not
\* consumed, popped the second value after the first
C23_Witness ==
    /\ clog.op = "pop"
    /\ clog.res = "Ok"
    /\ clog.rx = 2
    /\ rxs[2].rp = "Keep"
    /\ clog.prevLast = 1
    /\ clog.value = 2

\* C24: push changes only the producer's outbox; flush changes only the
\* outbox and back stages; a consumer's front changes only through its own
\* sync, pop or clear, and gains values only at its own sync.
C24_FrameEffects ==
    [][/\ clog'.op = "push" =>
             /\ rxs' = rxs
             /\ \A p \in DOMAIN txs :
                   txs'[p] = [txs[p] EXCEPT !.outbox = txs'[p].outbox]
             /\ \A p \in DOMAIN txs : p # clog'.tx => txs'[p] = txs[p]
       /\ clog'.op \in {"flush", "flushing"} =>
             /\ \A i \in DOMAIN rxs :
                   rxs'[i] = [rxs[i] EXCEPT !.back = rxs'[i].back]
             /\ \A p \in DOMAIN txs :
                   txs'[p] = [txs[p] EXCEPT !.outbox = txs'[p].outbox]
       /\ \A i \in DOMAIN rxs :
             rxs'[i].front # rxs[i].front =>
                /\ clog'.op \in {"sync", "pop", "clear"}
                /\ clog'.rx = i
                /\ (\E k \in DOMAIN rxs'[i].front :
                       \A j \in DOMAIN rxs[i].front :
                          rxs'[i].front[k] # rxs[i].front[j]) =>
                      clog'.op = "sync"
      ]_vars

\* C24 witness: a section of a flush delivered into the back stage of a
\* consumer whose front holds an earlier message
C24_Witness ==
    /\ clog.op \in {"flush", "flushing"}
    /\ clog.rx \in DOMAIN rxs
    /\ rxs[clog.rx].front = <<1>>
    /\ rxs[clog.rx].back = <<2>>
    /\ clog.preBacks[clog.rx] = <<>>

RECURSIVE Among(_, _)
\* the values of a sequence that belong to a set, in order
Among(items, S) ==
    IF items = <<>> THEN <<>>
    ELSE IF Head(items) \in S
         THEN <<Head(items)>> \o Among(Tail(items), S)
         ELSE Among(Tail(items), S)

Values(items) == {items[k] : k \in DOMAIN items}

\* C25: a consumer's sync while or after the producer flushes observes, of
\* the values this flush delivers to the consumer, either none or all of them.
C25_FlushAtomicPerConsumer ==
    (clog.op = "sync" /\ clog.preOutbox # <<>>) =>
        LET i == clog.rx
            observed == Among(rxs[i].front,
                              Values(clog.preOutbox) \ Values(clog.preFront))
        IN \/ observed = <<>>
           \/ /\ i \in clog.done
              /\ observed = Among(PushUntilError(rxs[i].op, clog.preBacks[i],
                                                 clog.preOutbox, 0).items,
                                  Values(clog.preOutbox))

\* C25 witness: while the flush of two values is still to serve the first
\* connection, the second consumer synced and got both
C25_Witness ==
    /\ clog.op = "sync"
    /\ clog.flushK = 1
    /\ clog.rx = 2
    /\ clog.preOutbox = <<1, 2>>
    /\ rxs[2].front = <<1, 2>>
    /\ rxs[1].back = <<>>

\* C26: after Executor::request_stop the worker thread eventually runs
\* finalize and exits, so that Executor::join returns.
C26_StopRequestEndsWorker == (hist.requested > 0) ~> (pc = "exited")

\* C27: no call of Executor::report panics, whenever it is made and however
\* many calls were made before it.
C27_ReportNeverPanics == main # "panicked"

\* C28: with a Terminator of countdown N-1, no Step runs after the N-th, so
\* Alice's stop hook sees N messages sent and Bob's sees N received.
C28_TerminatorStopsAtN ==
    /\ hist.stepsExecuted <= chan.num_messages
    /\ chan.sentAtStop # Absent => chan.sentAtStop = chan.num_messages
    /\ chan.recvAtStop # Absent => chan.recvAtStop = chan.num_messages

\* C29: for every instance and transition, skipped_count is the number of
\* invocations that returned Skipped, duration.count the number that returned
\* Running, period.count the number of invocations begun less one (0 when
\* none was begun); a failed invocation adds to neither count.
C29_StatisticsCounts ==
    \A i \in DOMAIN statistics : \A t \in Transitions :
        /\ statistics[i][t].skipped_count = hist.cycles[i][t].Skipped
        /\ statistics[i][t].duration = hist.cycles[i][t].Running
        /\ statistics[i][t].period = IF hist.cycles[i][t].begun = 0 THEN 0
                                     ELSE hist.cycles[i][t].begun - 1
        /\ statistics[i][t].skipped_count + statistics[i][t].duration
               <= hist.cycles[i][t].begun

\* C29 witness: the third step of an instance failed after one that ran and
\* one that was skipped
C29_Witness ==
    /\ 1 \in DOMAIN statistics
    /\ hist.cycles[1]["Step"] = [begun |-> 3, Running |-> 1, Skipped |-> 1]
    /\ statistics[1]["Step"].period = 2

\* the counter of the instance at position k of sequence s of worker w, when
\* counters run 0, 1, 2, ... in schedule order
CounterInOrder(w, s, k) ==
    (IF s = 2 THEN Len(executor.workers[w][1]) ELSE 0) + k - 1

UpTo == {i \in 1..Len(series.data) : series.data[i] <= series.time}

\* the positions of the series whose timestamp is after the searched time
Beyond == {i \in 1..Len(series.data) : series.data[i] > series.time}

\* C31: in a series of strictly increasing timestamps, Latest finds the
\* largest index whose timestamp is at most the time, and nothing when the
\* time is before the first timestamp or the series is empty; Earliest finds
\* the smallest index whose timestamp is after the time, and nothing when the
\* time is at or after the last timestamp or the series is empty.
C31_FindIndexByTime ==
    /\ series.criteria = "Latest" =>
          /\ series.index = Absent <=>
                (series.data = <<>> \/ series.time < series.data[1])
          /\ series.index # Absent =>
                /\ series.index + 1 \in UpTo
                /\ \A i \in UpTo : i <= series.index + 1
    /\ series.criteria = "Earliest" =>
          /\ series.index = Absent <=>
                (series.data = <<>>
                    \/ series.time >= series.data[Len(series.data)])
          /\ series.index # Absent =>
                /\ series.index + 1 \in Beyond
                /\ \A i \in Beyond : i >= series.index + 1

\* C31 witness: the searches of test_timeseries at a timestamp of the series,
\* Latest finding its index
C31_Witness ==
    /\ series.data = <<1, 2, 3, 4>>
    /\ series.criteria = "Latest"
    /\ series.time = 2
    /\ series.index = 1

\* the members of a logged sequence cycle that failed, in member order
RECURSIVE Failed(_)
Failed(results) ==
    IF results = <<>>
    THEN <<>>
    ELSE (IF Head(results).res \in OutcomeKinds THEN <<>>
          ELSE <<Head(results).member>>) \o Failed(Tail(results))

\* C32: a sequence's cycle gives the transition to every member in declared
\* order even after a member failed; it returns an error exactly when a
\* member failed, and the error bag holds one entry per failed member, in
\* member order.
C32_SequenceCyclesAll ==
    \A k \in 1..Len(hist.seqlog) :
        /\ [j \in 1..Len(hist.seqlog[k].results) |->
               hist.seqlog[k].results[j].member] = sequences[k]
        /\ hist.seqlog[k].res = "Err" <=> Failed(hist.seqlog[k].results) # <<>>
        /\ hist.seqlog[k].failures = Failed(hist.seqlog[k].results)

\* C32 witness: the first and the third member of a sequence failed a step
\* and the second ran
C32_Witness ==
    /\ sequences = << <<1, 2, 3>> >>
    /\ hist.executed = "Step"
    /\ Len(hist.seqlog) = 1
    /\ hist.seqlog[1].failures = <<1, 3>>
    /\ hist.seqlog[1].results[2].res = "Running"

\* C33: when no member of a sequence fails, the sequence's cycle returns
\* Running if some member returned Running and Skipped if every member
\* returned Skipped, the empty sequence included.
C33_SequenceOutcome ==
    \A k \in 1..Len(hist.seqlog) :
        hist.seqlog[k].failures = <<>> =>
            hist.seqlog[k].res =
                IF \E j \in 1..Len(hist.seqlog[k].results) :
                       hist.seqlog[k].results[j].res = "Running"
                THEN "Running" ELSE "Skipped"

\* C34: once the worker has left its loop and its thread has ended, it has
\* run finalize and after it sent exactly one final report.
C34_FinalReportAfterFinalize ==
    pc \in {"exited", "panicked"} =>
        /\ hist.op = "finalize"
        /\ rx_reply = <<WorkerReply(TRUE)>>

\* C35: an error of a stop hook never panics the worker thread; the worker
\* ends with the schedule terminated and its final report sent.
C35_StopErrorCaptured ==
    /\ pc # "panicked"
    /\ (pc = "exited" /\ hist.finalStop) =>
          /\ IsTerminated
          /\ Len(rx_reply) = 1

\* C36: once a Terminator has sent RequestStop, under every interleaving of
\* the worker and the runtime thread the worker is never left blocked in the
\* send on the 16-slot control channel, and Runtime::spin relays Stop, joins
\* the worker and returns.
C36_TerminatorShutsDown == (rx_control > 0) ~> (main = "returned")

\* C37: flush and sync never deadlock: a thread holds at most one back-stage
\* lock at a time, a lock is held only by a running thread inside flush or
\* sync (so it is released before the call returns and is never held while
\* codelet code pushes, pops or clears), and the work under a held lock can
\* always be done, whatever the other threads hold.
C37_LockDiscipline ==
    /\ \A t \in {ProducerThread} \cup DOMAIN rxs :
          Cardinality({h \in locks.held : h[1] = t}) <= 1
    /\ \A h \in locks.held : h[1] \in locks.inside /\ h[1] \notin clog.panicked
    /\ clog.op = "push" => \A h \in locks.held : h[1] # ProducerThread
    /\ clog.op \in {"pop", "clear"} => \A h \in locks.held : h[1] # clog.rx
    /\ locks.held # {} =>
          ENABLED (LockFlushSection \/ LockSyncSection)

\* a flush over two connections has returned while a consumer thread holds
\* the lock of its back stage inside sync
C37_Witness ==
    /\ clog.op = "flush"
    /\ Len(txs[1].connections) = 2
    /\ \E i \in DOMAIN rxs : <<i, i>> \in locks.held

\* C38: after every flush, with zero, one or many connections and whether or
\* not a consumer refused items, the outbox of the producer is empty: what
\* could not be delivered is discarded, not kept for the next flush.
C38_OutboxEmptyAfterFlush ==
    (clog.op = "flush" /\ clog.res = "Ok") => txs[clog.tx].outbox = <<>>

\* a flush of two or more values whose first connection refused one
C38_Witness ==
    /\ clog.op = "flush"
    /\ clog.res = "Ok"
    /\ Len(clog.preOutbox) >= 2
    /\ 0 \in clog.refused
    /\ txs[clog.tx].outbox = <<>>

\* C39: after every spin whose transition succeeded, the state machine of
\* every member of every sequence is in the state of the schedule's state
\* machine; while the schedule's state is not Error no two members differ.
C39_MembersFollowSchedule ==
    /\ (hist.op = "spin" /\ hist.executed # None /\ hist.ok) =>
           \A i \in Inst : mem[i] = sm_state
    /\ sm_state # "Error" => \A i, j \in Inst : mem[i] = mem[j]

\* a Step has succeeded on a schedule of three members in two sequences
C39_Witness ==
    /\ hist.op = "spin"
    /\ hist.executed = "Step"
    /\ hist.ok
    /\ Len(sequences) >= 2
    /\ \A i \in Inst : mem[i] = "Started"
    /\ sm_state = "Started"

\* C40: pop on a pair or a triple of receivers is all-or-nothing: when the
\* front of a member is empty it returns QueueEmpty and no front changes;
\* otherwise it removes the first item of every member's front and returns
\* these items together.
C40_TuplePopAllOrNothing ==
    clog.op \in {"pop2", "pop3"} =>
        IF \E i \in DOMAIN clog.preFronts : clog.preFronts[i] = <<>>
        THEN /\ clog.res = "QueueEmpty"
             /\ \A i \in DOMAIN clog.preFronts : rxs[i].front = clog.preFronts[i]
        ELSE /\ clog.res = "Ok"
             /\ \A i \in DOMAIN clog.preFronts :
                   /\ rxs[i].front = Tail(clog.preFronts[i])
                   /\ clog.popped[i] = Head(clog.preFronts[i])

====
